---- MODULE Spec2Model ----
(***************************************************************************)
(* Subtitle timing and segmentation engine of SMD-Backup (src/main.py and  *)
(* src/timing_redistributor.py).                                           *)
(*                                                                         *)
(* A text is a sequence of one-character strings.  A timestamp string      *)
(* "HH:MM:SS,mmm" is the record of its four integer fields, wf telling     *)
(* whether the string splits into "time,ms" with integer fields at all.    *)
(* A transcript (SRT content) is the sequence of its blocks, a block being *)
(* its index line, its time-range line and its text (the text lines        *)
(* joined by "\n").                                                        *)
(***************************************************************************)
EXTENDS Integers, Sequences, FiniteSets, TLC

VARIABLES
    pc,                \* the step the program has reached
    segments,          \* parsed segments handed to the continuity grouper
    max_gap_ms,        \* the grouper's threshold
    groups,            \* the grouper's result
    group,             \* the group handed to redistribute_timing_in_group
    min_duration_ms,   \* its min_duration_ms argument
    gap_ms,            \* its gap_ms argument
    redistributed,     \* its result
    srt_input,         \* the transcript handed to the two-pass pipeline
    srt_content,       \* the transcript as the pipeline has rewritten it so far
    pass_char_limit,   \* the char_limit of the last splitter pass
    split_log,         \* the splits the last splitter pass made
    original_srt_content,   \* the original-language transcript
    processed_srt_content,  \* the processed transcript whose segments are reused
    float_loss,        \* the segments whose word boundary the float product undershoots
    text_result,       \* redistribute_original_text(original, processed)
    text_result_again, \* redistribute_original_text(text_result, processed)
    subtitle_json,     \* srt_to_json's mapping: index -> [t, s]
    chunks,            \* the chunks of translate_with_claude, as sets of indices
    single_request,    \* whether translate_with_claude took the single-request branch
    parsed_result,     \* the response parsed by the last translate_chunk_with_claude
    validation,        \* what validate_translation_structure said about it
    translated_chunks, \* the chunk results collected so far
    translated_result, \* the mapping translate_with_claude returns
    translated_srt     \* the transcript after json_to_srt and the post-processing

timing_vars == <<segments, max_gap_ms, groups, group, min_duration_ms, gap_ms,
                 redistributed>>

pipeline_vars == <<srt_input, srt_content, pass_char_limit, split_log>>

text_vars == <<original_srt_content, processed_srt_content, float_loss, text_result,
               text_result_again>>

translate_vars == <<subtitle_json, chunks, single_request, parsed_result, validation,
                    translated_chunks, translated_result, translated_srt>>

vars == <<pc, timing_vars, pipeline_vars, text_vars, translate_vars>>

\* The translation variables before any translation was asked for.
TranslateIdle ==
    /\ subtitle_json = <<>>
    /\ chunks = <<>>
    /\ single_request = FALSE
    /\ parsed_result = <<>>
    /\ validation = <<>>
    /\ translated_chunks = <<>>
    /\ translated_result = <<>>
    /\ translated_srt = <<>>

(***************************************************************************)
(* Bounds of the model.                                                    *)
(***************************************************************************)
MaxSegs == 3

MaxBlocks == 2

MaxOriginal == 3

MaxProcessed == 3

MaxIndex == 2

(***************************************************************************)
(* Integer helpers.                                                        *)
(***************************************************************************)
Max(a, b) == IF a >= b THEN a ELSE b

Min(a, b) == IF a <= b THEN a ELSE b

\* Python's int() of a float truncates toward zero.
TruncDiv(a, b) == IF a >= 0 THEN a \div b ELSE -((-a) \div b)

\* w/t is a dyadic rational: the double w/t is then exact.
Dyadic(w, t) == \E k \in {1, 2, 4, 8, 16, 32, 64} : (w * k) % t = 0

\* int(c * (w / t)) in double arithmetic.  The quotient w/t is rounded, so
\* when c*w/t is a whole number the product may fall just short of it and
\* truncate one lower in magnitude (int(10 * (7/10) * ...) style losses, as
\* in int(7 * (61/7)) = 60); lossy says whether it does.  In every other
\* case the product is far from a whole number and the result is exact.
FloatMulTrunc(c, w, t, lossy) ==
    LET q == TruncDiv(c * w, t)
    IN  IF lossy /\ (c * w) % t = 0 /\ c * w # 0 /\ ~Dyadic(w, t)
        THEN (IF q > 0 THEN q - 1 ELSE q + 1)
        ELSE q

(***************************************************************************)
(* Text helpers: str.strip(), str.split(), re.sub(r'<[^>]+>', '', s).      *)
(***************************************************************************)
IsSpace(c) == c \in {" ", "\n"}

RECURSIVE LStrip(_)
LStrip(s) == IF s # <<>> /\ IsSpace(Head(s)) THEN LStrip(Tail(s)) ELSE s

RECURSIVE RStrip(_)
RStrip(s) ==
    IF s # <<>> /\ IsSpace(s[Len(s)]) THEN RStrip(SubSeq(s, 1, Len(s) - 1)) ELSE s

Strip(s) == RStrip(LStrip(s))

\* Length of the leading run of non-space characters of s.
WordLen(s) ==
    LET spaces == {i \in 1..Len(s) : IsSpace(s[i])}
    IN  IF spaces = {} THEN Len(s)
        ELSE (CHOOSE i \in spaces : \A j \in spaces : i <= j) - 1

\* s.split(): the maximal runs of non-space characters, in order.
RECURSIVE Split(_)
Split(s) ==
    LET t == LStrip(s)
        n == WordLen(t)
    IN  IF t = <<>> THEN <<>>
        ELSE <<SubSeq(t, 1, n)>> \o Split(SubSeq(t, n + 1, Len(t)))

\* ' '.join(words)
RECURSIVE Join(_)
Join(ws) ==
    IF ws = <<>> THEN <<>>
    ELSE IF Len(ws) = 1 THEN ws[1]
    ELSE ws[1] \o <<" ">> \o Join(Tail(ws))

\* Index of the first ">" of s at or after i, 0 when there is none.
FirstClose(s, i) ==
    LET closes == {j \in i..Len(s) : s[j] = ">"}
    IN  IF closes = {} THEN 0
        ELSE CHOOSE j \in closes : \A k \in closes : j <= k

\* re.sub(r'<[^>]+>', '', s): a "<", one or more characters other than ">",
\* then ">", removed left to right.
RECURSIVE StripTags(_)
StripTags(s) ==
    LET opens == {p \in 1..Len(s) : s[p] = "<" /\ FirstClose(s, p + 1) >= p + 2}
        p     == CHOOSE q \in opens : \A r \in opens : q <= r
    IN  IF opens = {} THEN s
        ELSE SubSeq(s, 1, p - 1) \o StripTags(SubSeq(s, FirstClose(s, p + 1) + 1, Len(s)))

count_words_in_text(text) == Len(Split(StripTags(Strip(text))))

\* list.extend over a list of lists.
RECURSIVE Concat(_)
Concat(gs) == IF gs = <<>> THEN <<>> ELSE Head(gs) \o Concat(Tail(gs))

RECURSIVE SumSeq(_)
SumSeq(s) == IF s = <<>> THEN 0 ELSE Head(s) + SumSeq(Tail(s))

(***************************************************************************)
(* Continuity grouper.                                                     *)
(***************************************************************************)
\* GroupLoop with a strict comparison: a gap equal to the threshold starts a new group.
RECURSIVE GroupLoop_StrictGap(_, _, _, _, _)
GroupLoop_StrictGap(segs, maxgap, i, closed, current_group) ==
    IF i > Len(segs) THEN Append(closed, current_group)
    ELSE LET gap == segs[i].start_ms - segs[i - 1].end_ms
         IN  IF gap < maxgap
             THEN GroupLoop_StrictGap(segs, maxgap, i + 1, closed,
                                      Append(current_group, segs[i]))
             ELSE GroupLoop_StrictGap(segs, maxgap, i + 1,
                                      Append(closed, current_group), <<segs[i]>>)

\* The loop of group_continuous_subtitles(_for_timing): groups closed so far,
\* the group being built, the next segment to look at.
RECURSIVE GroupLoop(_, _, _, _, _)
GroupLoop(segs, maxgap, i, closed, current_group) ==
    IF i > Len(segs) THEN Append(closed, current_group)
    ELSE LET gap == segs[i].start_ms - segs[i - 1].end_ms
         IN  IF gap <= maxgap
             THEN GroupLoop(segs, maxgap, i + 1, closed, Append(current_group, segs[i]))
             ELSE GroupLoop(segs, maxgap, i + 1, Append(closed, current_group), <<segs[i]>>)

group_continuous_subtitles(segs, maxgap) ==
    IF segs = <<>> THEN <<>> ELSE GroupLoop(segs, maxgap, 2, <<>>, <<segs[1]>>)

(***************************************************************************)
(* Proportional timing redistributor, src/main.py.                         *)
(***************************************************************************)
WordCounts(g) == [i \in 1..Len(g) |-> count_words_in_text(g[i].text)]

\* The gap and the content duration after lines 853-864: the reserved gaps
\* are shrunk when they leave no content time.
EffectiveGap(total_available_ms, n, gap) ==
    IF total_available_ms - (n - 1) * gap <= 0
    THEN Max(10, total_available_ms \div (n * 4))
    ELSE gap

ContentDuration(total_available_ms, n, gap) ==
    total_available_ms - (n - 1) * EffectiveGap(total_available_ms, n, gap)

\* SegmentEnd without the cap of lines 889-895.
SegmentEnd_NoCap(g, i, current_start_ms, c) ==
    IF i = Len(g) THEN c.group_end_ms
    ELSE current_start_ms
             + Max(FloatMulTrunc(c.content_duration_ms, c.word_counts[i],
                                 c.total_words, i \in c.lossy),
                   c.min_duration_ms)

\* segment_end_ms of segment i (lines 875-895), before the floor of line 900.
SegmentEnd(g, i, current_start_ms, c) ==
    IF i = Len(g) THEN c.group_end_ms
    ELSE LET proportional_duration ==
                 FloatMulTrunc(c.content_duration_ms, c.word_counts[i],
                               c.total_words, i \in c.lossy)
             actual_duration == Max(proportional_duration, c.min_duration_ms)
             remaining_segments == Len(g) - i
             remaining_time_needed == remaining_segments * c.min_duration_ms
                                      + remaining_segments * c.gap_ms
             max_allowed_end == c.group_end_ms - remaining_time_needed
         IN  Min(current_start_ms + actual_duration, max_allowed_end)

\* The loop of lines 872-905.
RECURSIVE RedistributeLoop(_, _, _, _)
RedistributeLoop(g, i, current_start_ms, c) ==
    IF i > Len(g) THEN <<>>
    ELSE LET end_ms == Max(current_start_ms + c.min_duration_ms,
                           SegmentEnd(g, i, current_start_ms, c))
             seg == [g[i] EXCEPT !.start_ms = current_start_ms, !.end_ms = end_ms]
         IN  <<seg>> \o RedistributeLoop(g, i + 1, end_ms + c.gap_ms, c)

\* The overlap repair of lines 911-925, pair by pair.
RECURSIVE VerifyNoOverlaps(_, _, _)
VerifyNoOverlaps(segs, i, c) ==
    IF i >= Len(segs) THEN segs
    ELSE LET curr == segs[i]
             next == segs[i + 1]
             pulled == next.start_ms - c.gap_ms
             short == pulled - curr.start_ms < c.min_duration_ms
             curr_end == IF short THEN curr.start_ms + c.min_duration_ms ELSE pulled
             next_start == IF short /\ curr_end + c.gap_ms > next.start_ms
                           THEN curr_end + c.gap_ms ELSE next.start_ms
         IN  IF curr.end_ms >= next.start_ms
             THEN VerifyNoOverlaps([segs EXCEPT ![i].end_ms = curr_end,
                                                ![i + 1].start_ms = next_start],
                                   i + 1, c)
             ELSE VerifyNoOverlaps(segs, i + 1, c)

\* PinLastEnd without line 909: the final pin of the last end is left out.
PinLastEnd_Omitted(segs, group_end_ms) == segs

\* Line 909: the last segment ends at the group's original end.
PinLastEnd(segs, group_end_ms) == [segs EXCEPT ![Len(segs)].end_ms = group_end_ms]

\* ReturnsUnchanged without the test of the group's span.
ReturnsUnchanged_NoSpanCheck(g) ==
    \/ Len(g) <= 1
    \/ SumSeq(WordCounts(g)) = 0

\* The early returns of lines 835-851.
ReturnsUnchanged(g) ==
    \/ Len(g) <= 1
    \/ SumSeq(WordCounts(g)) = 0
    \/ g[Len(g)].end_ms - g[1].start_ms <= 0

redistribute_timing_in_group(g, min_duration, gap, lossy) ==
    IF ReturnsUnchanged(g) THEN g
    ELSE LET total_available_ms == g[Len(g)].end_ms - g[1].start_ms
             c == [word_counts         |-> WordCounts(g),
                   total_words         |-> SumSeq(WordCounts(g)),
                   group_end_ms        |-> g[Len(g)].end_ms,
                   gap_ms              |-> EffectiveGap(total_available_ms, Len(g), gap),
                   content_duration_ms |-> ContentDuration(total_available_ms, Len(g), gap),
                   min_duration_ms     |-> min_duration,
                   lossy               |-> lossy]
         IN  VerifyNoOverlaps(
                 PinLastEnd(RedistributeLoop(g, 1, g[1].start_ms, c), c.group_end_ms),
                 1, c)

(***************************************************************************)
(* Proportional timing redistributor, src/timing_redistributor.py: no gaps *)
(* between the segments, each end capped at the group's end.               *)
(***************************************************************************)
\* RedistributeLoopTR where the next start advances by the proportional
\* duration, not by the duration the segment was given.
RECURSIVE RedistributeLoopTR_ProportionalAdvance(_, _, _, _)
RedistributeLoopTR_ProportionalAdvance(g, i, current_start_ms, c) ==
    IF i > Len(g) THEN <<>>
    ELSE LET proportional_duration ==
                 FloatMulTrunc(c.total_duration_ms, c.word_counts[i],
                               c.total_words, i \in c.lossy)
             actual_duration == Max(proportional_duration, c.min_duration_ms)
             segment_end_ms == IF i = Len(g) THEN c.group_end_ms
                               ELSE Min(current_start_ms + actual_duration, c.group_end_ms)
             seg == [g[i] EXCEPT !.start_ms = current_start_ms, !.end_ms = segment_end_ms]
         IN  <<seg>> \o RedistributeLoopTR_ProportionalAdvance(
                            g, i + 1, current_start_ms + proportional_duration, c)

RECURSIVE RedistributeLoopTR(_, _, _, _)
RedistributeLoopTR(g, i, current_start_ms, c) ==
    IF i > Len(g) THEN <<>>
    ELSE LET proportional_duration ==
                 FloatMulTrunc(c.total_duration_ms, c.word_counts[i],
                               c.total_words, i \in c.lossy)
             actual_duration == Max(proportional_duration, c.min_duration_ms)
             segment_end_ms == IF i = Len(g) THEN c.group_end_ms
                               ELSE Min(current_start_ms + actual_duration, c.group_end_ms)
             seg == [g[i] EXCEPT !.start_ms = current_start_ms, !.end_ms = segment_end_ms]
         IN  <<seg>> \o RedistributeLoopTR(g, i + 1, segment_end_ms, c)

redistribute_timing_in_group_tr(g, min_duration, lossy) ==
    IF ReturnsUnchanged(g) THEN g
    ELSE LET c == [word_counts       |-> WordCounts(g),
                   total_words       |-> SumSeq(WordCounts(g)),
                   group_end_ms      |-> g[Len(g)].end_ms,
                   total_duration_ms |-> g[Len(g)].end_ms - g[1].start_ms,
                   min_duration_ms   |-> min_duration,
                   lossy             |-> lossy]
         IN  PinLastEnd(RedistributeLoopTR(g, 1, g[1].start_ms, c), c.group_end_ms)

(***************************************************************************)
(* The timing machine: segments are parsed one by one, grouped, and one    *)
(* group is redistributed by either implementation.                        *)
(***************************************************************************)
\* Values the inputs are drawn from.
SegmentTexts == { <<"<", "i", ">">>, <<"<", "i", ">", " ", "a", " ", "b">> }

SegmentDurations == {10, 1500}

SegmentGaps == {-500, -10, 10, 500, 501}

FirstStarts == {1000}

MaxGapValues == {500}

MinDurationValues == {200, 1200}

GapValues == {0, 30}

TimingInit ==
    /\ pc = "parse"
    /\ segments = <<>>
    /\ max_gap_ms \in MaxGapValues
    /\ groups = <<>>
    /\ group = <<>>
    /\ min_duration_ms = 0
    /\ gap_ms = 0
    /\ redistributed = <<>>
    /\ srt_input = <<>>
    /\ srt_content = <<>>
    /\ pass_char_limit = 0
    /\ split_log = <<>>
    /\ original_srt_content = <<>>
    /\ processed_srt_content = <<>>
    /\ float_loss = {}
    /\ text_result = <<>>
    /\ text_result_again = <<>>
    /\ TranslateIdle

\* parse_srt_content appends the next parsed segment.
ParseSegment ==
    /\ pc = "parse"
    /\ Len(segments) < MaxSegs
    /\ \E gap \in SegmentGaps, d \in SegmentDurations, t \in SegmentTexts, s0 \in FirstStarts :
          LET start == IF segments = <<>> THEN s0
                       ELSE segments[Len(segments)].end_ms + gap
          IN  /\ segments = <<>> => gap = 10
              /\ segments' = Append(segments,
                                    [number   |-> Len(segments) + 1,
                                     start_ms |-> start,
                                     end_ms   |-> start + d,
                                     text     |-> t])
    /\ UNCHANGED <<pc, max_gap_ms, groups, group, min_duration_ms, gap_ms, redistributed,
                   pipeline_vars, text_vars, translate_vars>>

GroupSegments ==
    /\ pc = "parse"
    /\ groups' = group_continuous_subtitles(segments, max_gap_ms)
    /\ pc' = "grouped"
    /\ UNCHANGED <<segments, max_gap_ms, group, min_duration_ms, gap_ms, redistributed,
                   pipeline_vars, text_vars, translate_vars>>

RedistributeGroup ==
    /\ pc = "grouped"
    /\ \E k \in 1..Len(groups), m \in MinDurationValues, gp \in GapValues :
       \E lossy \in SUBSET (1..(Len(groups[k]) - 1)) :
          /\ group' = groups[k]
          /\ min_duration_ms' = m
          /\ gap_ms' = gp
          /\ redistributed' = redistribute_timing_in_group(groups[k], m, gp, lossy)
    /\ pc' = "redistributed"
    /\ UNCHANGED <<segments, max_gap_ms, groups, pipeline_vars, text_vars, translate_vars>>

RedistributeGroupTR ==
    /\ pc = "grouped"
    /\ \E k \in 1..Len(groups), m \in MinDurationValues :
       \E lossy \in SUBSET (1..(Len(groups[k]) - 1)) :
          /\ group' = groups[k]
          /\ min_duration_ms' = m
          /\ gap_ms' = 0
          /\ redistributed' = redistribute_timing_in_group_tr(groups[k], m, lossy)
    /\ pc' = "redistributed_tr"
    /\ UNCHANGED <<segments, max_gap_ms, groups, pipeline_vars, text_vars, translate_vars>>

TimingNext == ParseSegment \/ GroupSegments \/ RedistributeGroup \/ RedistributeGroupTR

SpecTiming == TimingInit /\ [][TimingNext]_vars

(***************************************************************************)
(* Timestamp codec, src/main.py.                                           *)
(***************************************************************************)
Timestamp(h, m, sec, ms) == [wf |-> TRUE, h |-> h, m |-> m, s |-> sec, ms |-> ms]

\* parse_timestamp of main.py: 0 for a string that does not parse and for
\* one with a field out of range.
parse_timestamp(t) ==
    IF ~t.wf THEN 0
    ELSE IF \/ t.h < 0 \/ t.m < 0 \/ t.m > 59 \/ t.s < 0 \/ t.s > 59
            \/ t.ms < 0 \/ t.ms > 999
         THEN 0
         ELSE Max(0, (t.h * 3600 + t.m * 60 + t.s) * 1000 + t.ms)

\* parse_timestamp of timing_redistributor.py: no range check.
parse_timestamp_tr(t) ==
    IF ~t.wf THEN 0 ELSE Max(0, (t.h * 3600 + t.m * 60 + t.s) * 1000 + t.ms)

\* format_timestamp of main.py, with its clamps.
format_timestamp(total) ==
    LET total_ms == Max(0, total)
        total_seconds == total_ms \div 1000
    IN  Timestamp(Max(0, Min(99, total_seconds \div 3600)),
                  Max(0, Min(59, (total_seconds % 3600) \div 60)),
                  Max(0, Min(59, total_seconds % 60)),
                  Max(0, Min(999, total_ms % 1000)))

\* The text "HH:MM:SS,mmm" of a time, hours written in full.
TimestampOf(total_ms) ==
    Timestamp(total_ms \div 3600000, (total_ms \div 60000) % 60,
              (total_ms \div 1000) % 60, total_ms % 1000)

\* A time-range line "start --> end"; arrow is FALSE for a line without the
\* ' --> ' token.
TimeRange(st, en) == [arrow |-> TRUE, st |-> st, en |-> en]

(***************************************************************************)
(* Split-point search, src/main.py.  Positions are Python's, from 0.       *)
(***************************************************************************)
At(text, i) == text[i + 1]

\* text[:k] and text[k:]
Prefix(text, k) == SubSeq(text, 1, k)

Suffix(text, k) == SubSeq(text, k + 1, Len(text))

IsDigit(c) == c \in {"0", "1", "2", "3", "4", "5", "6", "7", "8", "9"}

IsPunctuation(c) == c \in {".", ",", ":", ";", "!", "?", "-"}

SetMax(S) == CHOOSE x \in S : \A y \in S : y <= x

SetMin(S) == CHOOSE x \in S : \A y \in S : x <= y

\* Lines 316-331: a digit among the 5 characters before the comma and a digit
\* among the characters range(i+1, min(len, i+5)) after it.
is_number_comma(text, i) ==
    /\ \E j \in Max(0, i - 5)..(i - 1) : IsDigit(At(text, j))
    /\ \E k \in (i + 1)..(Min(Len(text), i + 5) - 1) : IsDigit(At(text, k))

punct_positions(text) ==
    { i \in 0..(Len(text) - 1) :
        /\ IsPunctuation(At(text, i))
        /\ ~(At(text, i) = "," /\ is_number_comma(text, i)) }

\* Both parts of a split after position pos, stripped, have n characters.
PartsAtLeast(text, pos, n) ==
    /\ Len(Strip(Prefix(text, pos + 1))) >= n
    /\ Len(Strip(Suffix(text, pos + 1))) >= n

NoSplit(why) == [pos |-> -1, strategy |-> why]

MaxOr(S, default) == IF S = {} THEN default ELSE SetMax(S)

\* Lines 335-388, P being the punctuation positions found by lines 309-333.
split_point_among(text, char_limit, P) ==
    LET text_length == Len(text)
        is_very_long == 2 * text_length > 3 * char_limit
        min_length == IF is_very_long THEN 5 ELSE 8
        best_pos == MaxOr({ p \in P : PartsAtLeast(text, p, min_length) }, -1)
        aggressive == MaxOr({ p \in P : /\ 5 * p > text_length
                                        /\ 5 * p < 4 * text_length
                                        /\ PartsAtLeast(text, p, 3) }, -1)
    IN  IF P = {} THEN NoSplit("no_punctuation")
        ELSE IF Cardinality(P) = 1
        THEN IF is_very_long \/ PartsAtLeast(text, SetMax(P), 5)
             THEN [pos |-> SetMax(P), strategy |-> "single_punctuation"]
             ELSE NoSplit("single_too_unbalanced")
        ELSE IF best_pos > 0
        THEN [pos |-> best_pos, strategy |-> "multiple_balanced"]
        ELSE IF is_very_long /\ aggressive >= 0
        THEN [pos |-> aggressive, strategy |-> "multiple_aggressive"]
        ELSE IF PartsAtLeast(text, SetMax(P), 3)
        THEN [pos |-> SetMax(P), strategy |-> "multiple_last_resort"]
        ELSE NoSplit("no_good_split")

find_punctuation_split_point(text, char_limit) ==
    split_point_among(text, char_limit, punct_positions(text))

\* Lines 460-482: the space nearest the midpoint within the search range
\* (the position before the midpoint first), else the first space inside
\* the middle 60 % of the text; -1 when there is none.
best_space_pos(text) ==
    LET n == Len(text)
        target_pos == n \div 2
        search_range == Max(10, n \div 5)
        IsSpaceAt(pos) == 0 < pos /\ pos < n - 1 /\ At(text, pos) = " "
        offsets == { o \in 0..(search_range - 1) :
                        IsSpaceAt(target_pos - o) \/ IsSpaceAt(target_pos + o) }
        middle == { i \in 0..(n - 1) : At(text, i) = " " /\ 5 * i > n /\ 5 * i < 4 * n }
    IN  IF offsets # {}
        THEN IF IsSpaceAt(target_pos - SetMin(offsets))
             THEN target_pos - SetMin(offsets)
             ELSE target_pos + SetMin(offsets)
        ELSE IF middle # {} THEN SetMin(middle) ELSE -1

\* SplitParts with the last character of the first part cut off.
SplitParts_FirstPartCutShort(first, second, strategy) ==
    [ok |-> TRUE, first_part |-> Prefix(first, Len(first) - 1), second_part |-> second,
     strategy |-> strategy]

\* Lines 435-509: the parts of the split and the strategy that found them,
\* ok FALSE when no strategy succeeds.
SplitParts(first, second, strategy) ==
    [ok |-> TRUE, first_part |-> first, second_part |-> second, strategy |-> strategy]

\* split_at with the forced split tried before the two searches.
split_at_ForcedFirst(text, char_limit, found, space_pos) ==
    IF 5 * Len(text) > 9 * char_limit
    THEN SplitParts(Strip(Prefix(text, Len(text) \div 2)),
                    Strip(Suffix(text, Len(text) \div 2)), "forced_split")
    ELSE [ok |-> FALSE, first_part |-> <<>>, second_part |-> <<>>,
          strategy |-> found.strategy]

\* Lines 441-503, found being the result of find_punctuation_split_point and
\* space_pos the position the word-boundary search of lines 457-482 found.
split_at(text, char_limit, found, space_pos) ==
    LET is_very_long == 2 * Len(text) > 3 * char_limit
        min_part_length == IF is_very_long THEN 2 ELSE 3
        punct_ok == /\ found.pos > 0
                    /\ Len(Strip(Prefix(text, found.pos + 1))) >= min_part_length
                    /\ Len(Strip(Suffix(text, found.pos + 1))) >= min_part_length
        word_ok == /\ space_pos > 0
                   /\ Len(Strip(Prefix(text, space_pos))) >= 3
                   /\ Len(Strip(Suffix(text, space_pos))) >= 3
        mid_point == Len(text) \div 2
    IN  IF punct_ok
        THEN SplitParts(Strip(Prefix(text, found.pos + 1)),
                        Strip(Suffix(text, found.pos + 1)), found.strategy)
        ELSE IF word_ok
        THEN SplitParts(Strip(Prefix(text, space_pos)), Strip(Suffix(text, space_pos)),
                        "word_boundary")
        ELSE IF 5 * Len(text) > 9 * char_limit
        THEN SplitParts(Strip(Prefix(text, mid_point)), Strip(Suffix(text, mid_point)),
                        "forced_split")
        ELSE [ok |-> FALSE, first_part |-> <<>>, second_part |-> <<>>,
              strategy |-> found.strategy]

choose_split(text, char_limit) ==
    split_at(text, char_limit, find_punctuation_split_point(text, char_limit),
             best_space_pos(text))

(***************************************************************************)
(* Long-segment splitter, split_advanced_segments of src/main.py.          *)
(***************************************************************************)
min_segment_duration == 200

split_gap_ms == 30

noise_floor_ms == 50

\* split_timing with the second child starting where the first ends.
split_timing_NoGap(start_ms, end_ms, first_words, second_words, lossy) ==
    LET total_duration == end_ms - start_ms
        available_duration == total_duration - split_gap_ms
        first_duration ==
            Max(min_segment_duration,
                FloatMulTrunc(available_duration, first_words,
                              first_words + second_words, lossy))
    IN  [ok |-> total_duration >= min_segment_duration * 2 + 100,
         first_end_time |-> start_ms + first_duration,
         second_start_time |-> start_ms + first_duration]

\* Lines 511-584: where the first child ends and the second starts, ok FALSE
\* when the segment is kept as it is.
split_timing(start_ms, end_ms, first_words, second_words, lossy) ==
    LET total_duration == end_ms - start_ms
        required_total_duration == min_segment_duration * 2 + 100
        total_words == first_words + second_words
        available_duration == total_duration - split_gap_ms
        ideal_first_duration ==
            FloatMulTrunc(available_duration, first_words, total_words, lossy)
        floored == Max(min_segment_duration, ideal_first_duration)
        adjusted == IF available_duration - floored < min_segment_duration
                    THEN available_duration - min_segment_duration
                    ELSE floored
        first_duration ==
            IF total_words > 0
            THEN (IF adjusted < min_segment_duration
                  THEN available_duration \div 2 ELSE adjusted)
            ELSE Max(min_segment_duration, available_duration \div 2)
        first_end_time == start_ms + first_duration
        second_start_time == first_end_time + split_gap_ms
    IN  [ok |-> /\ total_duration >= required_total_duration
                /\ available_duration > min_segment_duration * 2
                /\ first_end_time > start_ms
                /\ second_start_time < end_ms,
         first_end_time |-> first_end_time,
         second_start_time |-> second_start_time]

NewlinesToSpaces(text) == [i \in 1..Len(text) |-> IF text[i] = "\n" THEN " " ELSE text[i]]

\* block.strip().split('\n') has at least 3 lines: an index line, a
\* time-range line and text that is not all whitespace.
HasThreeLines(b) == Strip(b.text) # <<>>

\* Lines 394-410: the segments of the blocks that have three lines.
parse_for_split(content) ==
    LET blocks == SelectSeq(content, HasThreeLines)
    IN  [i \in 1..Len(blocks) |->
            [num       |-> blocks[i].num,
             half      |-> 0,
             timestamp |-> blocks[i].ts,
             text      |-> NewlinesToSpaces(RStrip(blocks[i].text))]]

\* Line 424.
should_process(segment, char_limit) ==
    LET text == Strip(segment.text)
        word_count == Len(Split(text))
        is_very_long == 2 * Len(text) > 3 * char_limit
    IN  (Len(text) > char_limit /\ word_count >= 3) \/ (is_very_long /\ word_count >= 2)

\* Lines 586-596: the two children, the second under the sort key num + 0.5
\* (half = 1).
split_children(segment, parts, timing) ==
    << [num       |-> segment.num,
        half      |-> 0,
        timestamp |-> TimeRange(segment.timestamp.st,
                                format_timestamp(timing.first_end_time)),
        text      |-> parts.first_part],
       [num       |-> segment.num,
        half      |-> 1,
        timestamp |-> TimeRange(format_timestamp(timing.second_start_time),
                                segment.timestamp.en),
        text      |-> parts.second_part] >>

\* split_children_if without the duration tests of lines 515-519, 531-534
\* and 561-564.
split_children_if_AnyDuration(segment, parts, timing) ==
    split_children(segment, parts, timing)

split_children_if(segment, parts, timing) ==
    IF timing.ok THEN split_children(segment, parts, timing) ELSE <<segment>>

\* Lines 511-601, parts being the split the strategies of lines 435-509 chose.
split_with(segment, parts, lossy) ==
    IF ~parts.ok THEN <<segment>>
    ELSE split_children_if(segment, parts,
             split_timing(parse_timestamp(segment.timestamp.st),
                          parse_timestamp(segment.timestamp.en),
                          Len(Split(parts.first_part)),
                          Len(Split(parts.second_part)), lossy))

\* Lines 416-601 for one segment: the segment itself, or its two children.
split_segment(segment, char_limit, lossy) ==
    IF ~should_process(segment, char_limit) THEN <<segment>>
    ELSE split_with(segment, choose_split(Strip(segment.text), char_limit), lossy)

\* list.sort(key=...) is stable: an item goes behind the items with a smaller
\* key and the earlier items with the same key.
Rank(keys, i) ==
    Cardinality({ j \in 1..Len(keys) :
                    keys[j] < keys[i] \/ (keys[j] = keys[i] /\ j < i) }) + 1

SortByKey(keys, s) ==
    [p \in 1..Len(s) |-> s[CHOOSE i \in 1..Len(s) : Rank(keys, i) = p]]

\* SortByNum with the second child under the key num + 1.5.
SortByNum_LateSecondChild(segs) ==
    SortByKey([i \in 1..Len(segs) |-> 2 * segs[i].num + 3 * segs[i].half], segs)

\* The sort of line 604, by num, or num + 0.5 for a second child (doubled).
SortByNum(segs) == SortByKey([i \in 1..Len(segs) |-> 2 * segs[i].num + segs[i].half], segs)

\* is_valid_segment without the test of lines 630-634.
is_valid_segment_NoNoiseFloor(segment) ==
    /\ Len(Strip(segment.text)) >= 2
    /\ segment.timestamp.arrow =>
          /\ segment.timestamp.st # segment.timestamp.en
          /\ parse_timestamp(segment.timestamp.st) < parse_timestamp(segment.timestamp.en)

\* Lines 606-641: the segments the validation filter keeps.
is_valid_segment(segment) ==
    LET text == Strip(segment.text)
        t == segment.timestamp
        start_ms == parse_timestamp(t.st)
        end_ms == parse_timestamp(t.en)
    IN  /\ Len(text) >= 2
        /\ t.arrow => /\ t.st # t.en
                      /\ start_ms < end_ms
                      /\ end_ms - start_ms >= noise_floor_ms

\* Line 430 raises on a processed segment whose time-range line has no
\* ' --> '.
raises_on(segs, char_limit) ==
    \E i \in 1..Len(segs) :
        should_process(segs[i], char_limit) /\ ~segs[i].timestamp.arrow

\* Line 403 raises on an index line that is no integer.
split_raises(content, char_limit) ==
    \/ \E i \in 1..Len(content) : HasThreeLines(content[i]) /\ ~content[i].numeric
    \/ raises_on(parse_for_split(content), char_limit)

\* The loop of lines 416-601: every parsed segment with what it became.
attempts_on(segs, char_limit, lossy) ==
    [i \in 1..Len(segs) |->
        [original |-> segs[i],
         children |-> split_segment(segs[i], char_limit, lossy)]]

split_attempts(content, char_limit, lossy) ==
    attempts_on(parse_for_split(content), char_limit, lossy)

IsSplit(attempt) == Len(attempt.children) = 2

ChildPairs(made) ==
    [i \in 1..Len(made) |->
        [original |-> made[i].original,
         first    |-> made[i].children[1],
         second   |-> made[i].children[2]]]

\* The pairs of children the pass created, with the segment they came from.
splits_made(content, char_limit, lossy) ==
    ChildPairs(SelectSeq(split_attempts(content, char_limit, lossy), IsSplit))

AllChildren(attempts) == Concat([i \in 1..Len(attempts) |-> attempts[i].children])

\* new_segments after the loop of lines 416-601.
new_segments(content, char_limit, lossy) ==
    AllChildren(split_attempts(content, char_limit, lossy))

\* Lines 643-663 with the numbers of the segments kept as they are.
KeepNumbers(valid) ==
    [i \in 1..Len(valid) |->
        [num     |-> valid[i].num,
         numeric |-> TRUE,
         ts      |-> valid[i].timestamp,
         text    |-> valid[i].text]]

\* Lines 643-663: renumber from 1 and rebuild the blocks.
Renumber(valid) ==
    [i \in 1..Len(valid) |->
        [num     |-> i,
         numeric |-> TRUE,
         ts      |-> valid[i].timestamp,
         text    |-> valid[i].text]]

\* Lines 603-663: sort by number, filter, renumber from 1, rebuild.
split_advanced_segments(content, char_limit, lossy) ==
    Renumber(SelectSeq(SortByNum(new_segments(content, char_limit, lossy)),
                       is_valid_segment))

(***************************************************************************)
(* redistribute_srt_timing of src/main.py.                                 *)
(***************************************************************************)
default_gap_ms == 30

\* parse_for_timing with the ValueError of the unpacking of line 789 not
\* raised: a time-range line without ' --> ' is taken as it is.
parse_for_timing_KeepsArrowless(content) ==
    LET blocks == SelectSeq(content, LAMBDA b : HasThreeLines(b) /\ b.numeric)
    IN  [i \in 1..Len(blocks) |->
            [number   |-> blocks[i].num,
             start_ms |-> parse_timestamp(blocks[i].ts.st),
             end_ms   |-> parse_timestamp(blocks[i].ts.en),
             text     |-> Strip(blocks[i].text)]]

\* Lines 779-800: blocks with a non-integer index or without ' --> ' are
\* skipped.
parse_for_timing(content) ==
    LET blocks == SelectSeq(content,
                      LAMBDA b : HasThreeLines(b) /\ b.numeric /\ b.ts.arrow)
    IN  [i \in 1..Len(blocks) |->
            [number   |-> blocks[i].num,
             start_ms |-> parse_timestamp(blocks[i].ts.st),
             end_ms   |-> parse_timestamp(blocks[i].ts.en),
             text     |-> Strip(blocks[i].text)]]

\* Lines 941-952: groups of two or more are redistributed, the others kept.
redistribute_groups(gs, min_duration, lossy) ==
    Concat([k \in 1..Len(gs) |->
              IF Len(gs[k]) > 1
              THEN redistribute_timing_in_group(gs[k], min_duration, default_gap_ms,
                                                IF lossy THEN 1..Len(gs[k]) ELSE {})
              ELSE gs[k]])

\* The sort of line 957.
SortByNumber(segs) == SortByKey([i \in 1..Len(segs) |-> segs[i].number], segs)

\* Lines 959-968: the blocks rebuilt from the segments.
rebuild_blocks(segs) ==
    [i \in 1..Len(segs) |->
        [num     |-> segs[i].number,
         numeric |-> TRUE,
         ts      |-> TimeRange(format_timestamp(segs[i].start_ms),
                               format_timestamp(segs[i].end_ms)),
         text    |-> segs[i].text]]

redistribute_parsed(content, gs, min_duration, lossy) ==
    IF gs = <<>> THEN content
    ELSE rebuild_blocks(SortByNumber(redistribute_groups(gs, min_duration, lossy)))

redistribute_srt_timing(content, maxgap, min_duration, lossy) ==
    redistribute_parsed(content,
                        group_continuous_subtitles(parse_for_timing(content), maxgap),
                        min_duration, lossy)

(***************************************************************************)
(* The two-pass pipeline, split_long_segments_with_punctuation of          *)
(* src/main.py: the transcript is read block by block, then split at 60,   *)
(* redistributed, split at 40 and redistributed again.  split_advanced_    *)
(* segments is also called on its own with another char_limit.             *)
(***************************************************************************)
pass1_char_limit == 60

pass2_char_limit == 40

pipeline_max_gap_ms == 500

pipeline_min_duration_ms == 1200

Rep(c, n) == [i \in 1..n |-> c]

\* "x y"
TextShort == <<"x", " ", "y">>

\* 46 characters, one comma: "aaaaa bbbbb ccccc ddddd, eeeee fffff ggggg hhhh"
TextMedium ==
    Rep("a", 5) \o <<" ">> \o Rep("b", 5) \o <<" ">> \o Rep("c", 5) \o <<" ">>
    \o Rep("d", 5) \o <<",", " ">> \o Rep("e", 5) \o <<" ">> \o Rep("f", 5)
    \o <<" ">> \o Rep("g", 5) \o <<" ">> \o Rep("h", 4)

\* 93 characters: a sentence, then a clause with a number comma, then more.
TextLong ==
    Rep("a", 9) \o <<" ">> \o Rep("b", 9) \o <<" ">> \o Rep("c", 9) \o <<".", " ">>
    \o Rep("d", 7) \o <<" ", "1", ",", "2", "0", "0", " ">> \o Rep("e", 9) \o <<" ">>
    \o Rep("f", 9) \o <<",", " ">> \o Rep("g", 9) \o <<" ">> \o Rep("h", 9)
    \o <<" ">> \o Rep("i", 6) \o <<"!">>

\* 113 characters without punctuation or a space near the middle.
TextUnbroken == Rep("a", 110) \o <<" ", "b", "b">>

\* 45 characters, four words, no punctuation.
TextWords ==
    Rep("a", 10) \o <<" ">> \o Rep("b", 10) \o <<" ">> \o Rep("c", 10) \o <<" ">>
    \o Rep("d", 12)

\* 26 characters, three words, no punctuation, the spaces at the front.
TextFrontWords == <<"a", " ", "b", " ">> \o Rep("c", 22)

\* Two text lines, the first wrapped in a tag.
TextLines == <<"<", "i", ">", "h", "i", "<", "/", "i", ">", "\n", "y", "o", "u">>

\* The blocks the input is drawn from: text, duration, whether the
\* time-range line has its arrow, whether the index line is an integer.
BlockKind(text, duration, arrow, numeric) ==
    [text |-> text, duration |-> duration, arrow |-> arrow, numeric |-> numeric]

BlockKinds ==
    { BlockKind(TextShort, 40, TRUE, TRUE),
      BlockKind(TextShort, 900, TRUE, TRUE),
      BlockKind(TextShort, 900, FALSE, TRUE),
      BlockKind(TextShort, 900, TRUE, FALSE),
      BlockKind(TextLines, 900, TRUE, TRUE),
      BlockKind(TextMedium, 40, TRUE, TRUE),
      BlockKind(TextMedium, 300, TRUE, TRUE),
      BlockKind(TextMedium, 600, TRUE, TRUE),
      BlockKind(TextMedium, 600, FALSE, TRUE),
      BlockKind(TextWords, 900, TRUE, TRUE),
      BlockKind(TextFrontWords, 900, TRUE, TRUE),
      BlockKind(TextLong, 600, TRUE, TRUE),
      BlockKind(TextLong, 5000, TRUE, TRUE),
      BlockKind(TextUnbroken, 5000, TRUE, TRUE) }

BlockGaps == {100, 501}

\* 00:00:01,000 and 99:59:59,000, one second below format_timestamp's
\* hours clamp.
FirstBlockStarts == {1000, 359999000}

StandaloneCharLimits == {20}

PipelineInit ==
    /\ pc = "read"
    /\ srt_input = <<>>
    /\ srt_content = <<>>
    /\ pass_char_limit = 0
    /\ split_log = <<>>
    /\ segments = <<>>
    /\ max_gap_ms = pipeline_max_gap_ms
    /\ groups = <<>>
    /\ group = <<>>
    /\ min_duration_ms = pipeline_min_duration_ms
    /\ gap_ms = default_gap_ms
    /\ redistributed = <<>>
    /\ original_srt_content = <<>>
    /\ processed_srt_content = <<>>
    /\ float_loss = {}
    /\ text_result = <<>>
    /\ text_result_again = <<>>
    /\ TranslateIdle

\* The next block of the input transcript, numbered in sequence.
ReadBlock ==
    /\ pc = "read"
    /\ Len(srt_content) < MaxBlocks
    /\ \E kind \in BlockKinds, gap \in BlockGaps :
       \E first_start \in FirstBlockStarts :
          LET start == IF srt_content = <<>> THEN first_start
                       ELSE parse_timestamp(srt_content[Len(srt_content)].ts.en) + gap
              block == [num     |-> Len(srt_content) + 1,
                        numeric |-> kind.numeric,
                        ts      |-> [arrow |-> kind.arrow,
                                     st    |-> TimestampOf(start),
                                     en    |-> TimestampOf(start + kind.duration)],
                        text    |-> kind.text]
          IN  /\ srt_content = <<>> => gap = 100
              /\ srt_content # <<>> => first_start = 1000
              /\ srt_content' = Append(srt_content, block)
              /\ srt_input' = Append(srt_content, block)
    /\ UNCHANGED <<pc, pass_char_limit, split_log, timing_vars, text_vars, translate_vars>>

\* One call of split_advanced_segments: the rewritten transcript, or the
\* exception leaving the function.
SplitPass(limit, lossy, next_pc) ==
    /\ pass_char_limit' = limit
    /\ IF split_raises(srt_content, limit)
       THEN /\ pc' = "raised"
            /\ UNCHANGED <<srt_content, split_log>>
       ELSE /\ pc' = next_pc
            /\ srt_content' = split_advanced_segments(srt_content, limit, lossy)
            /\ split_log' = splits_made(srt_content, limit, lossy)
    /\ UNCHANGED <<srt_input, timing_vars, text_vars, translate_vars>>

\* RedistributePass leaving the transcript as the splitter wrote it.
RedistributePass_Skipped(lossy, next_pc) ==
    /\ pc' = next_pc
    /\ UNCHANGED <<srt_input, srt_content, pass_char_limit, split_log, timing_vars,
                   text_vars, translate_vars>>

\* Lines 980 and 986.
RedistributePass(lossy, next_pc) ==
    /\ srt_content' = redistribute_srt_timing(srt_content, pipeline_max_gap_ms,
                                              pipeline_min_duration_ms, lossy)
    /\ pc' = next_pc
    /\ UNCHANGED <<srt_input, pass_char_limit, split_log, timing_vars, text_vars, translate_vars>>

SplitPass1 == pc = "read" /\ \E lossy \in BOOLEAN : SplitPass(pass1_char_limit, lossy, "pass1")

Redistribute1 == pc = "pass1" /\ \E lossy \in BOOLEAN : RedistributePass(lossy, "redistributed1")

SplitPass2 ==
    pc = "redistributed1" /\ \E lossy \in BOOLEAN : SplitPass(pass2_char_limit, lossy, "pass2")

Redistribute2 == pc = "pass2" /\ \E lossy \in BOOLEAN : RedistributePass(lossy, "done")

SplitAlone ==
    /\ pc = "read"
    /\ \E limit \in StandaloneCharLimits, lossy \in BOOLEAN : SplitPass(limit, lossy, "split")

PipelineNext ==
    ReadBlock \/ SplitPass1 \/ Redistribute1 \/ SplitPass2 \/ Redistribute2 \/ SplitAlone

SpecPipeline == PipelineInit /\ [][PipelineNext]_vars

(***************************************************************************)
(* redistribute_original_text of src/main.py: the words of the original    *)
(* transcript are dealt out over the segments of the processed one.        *)
(***************************************************************************)
texts_of(blocks) ==
    [i \in 1..Len(blocks) |-> Strip(NewlinesToSpaces(blocks[i].text))]

\* Lines 670-680: the texts of the original blocks that have three lines.
original_texts(content) == texts_of(SelectSeq(content, HasThreeLines))

segments_of(blocks) ==
    [i \in 1..Len(blocks) |-> [num |-> blocks[i].num, timestamp |-> blocks[i].ts]]

\* Lines 683-696: number and time-range line of the processed blocks that
\* have three lines.
processed_segments(content) == segments_of(SelectSeq(content, HasThreeLines))

\* words[a:b]
Slice(words, a, b) == SubSeq(words, a + 1, Min(b, Len(words)))

\* One iteration of the loop with the fallback leaving word_index alone.
give_words_FallbackKeepsIndex(words, segs, i, state, loss) ==
    LET expected_words_end == FloatMulTrunc(i, Len(words), Len(segs), i \in loss)
        segment_words == Slice(words, state.word_index, expected_words_end)
        text == IF segment_words = <<>> /\ state.word_index < Len(words)
                THEN words[state.word_index + 1]
                ELSE Join(segment_words)
    IN  [word_index |-> IF segment_words # <<>> THEN expected_words_end
                        ELSE state.word_index,
         segments   |-> IF text # <<>>
                        THEN Append(state.segments,
                                    [num       |-> segs[i].num,
                                     timestamp |-> segs[i].timestamp,
                                     text      |-> text])
                        ELSE state.segments]

\* Lines 719-741: one iteration of the loop, for the i-th processed segment
\* (i = 1 is Python's i = 0, so i stands for i + 1 of line 721).
give_words(words, segs, i, state, loss) ==
    LET expected_words_end == FloatMulTrunc(i, Len(words), Len(segs), i \in loss)
        segment_words == IF expected_words_end > Len(words)
                         THEN Slice(words, state.word_index, Len(words))
                         ELSE Slice(words, state.word_index, expected_words_end)
        segment_text == Strip(Join(segment_words))
        fallback == segment_text = <<>> /\ state.word_index < Len(words)
        text == IF fallback THEN words[state.word_index + 1] ELSE segment_text
    IN  [word_index |-> IF fallback THEN state.word_index + 1
                        ELSE IF segment_words # <<>> THEN expected_words_end
                        ELSE state.word_index,
         segments   |-> IF text # <<>>
                        THEN Append(state.segments,
                                    [num       |-> segs[i].num,
                                     timestamp |-> segs[i].timestamp,
                                     text      |-> text])
                        ELSE state.segments]

\* Lines 719-741: the loop over the processed segments.
RECURSIVE distribute_words(_, _, _, _, _)
distribute_words(words, segs, i, state, loss) ==
    IF i > Len(segs) THEN state
    ELSE distribute_words(words, segs, i + 1, give_words(words, segs, i, state, loss),
                          loss)

\* Lines 744-757: the words left over go to the last segment, or to a new
\* one when there is none.
with_remaining(words, segs, state) ==
    IF state.word_index >= Len(words) THEN state.segments
    ELSE IF state.segments # <<>>
    THEN [state.segments EXCEPT ![Len(state.segments)].text =
              @ \o <<" ">> \o Join(Slice(words, state.word_index, Len(words)))]
    ELSE << [num       |-> Len(segs),
             timestamp |-> segs[Len(segs)].timestamp,
             text      |-> Join(Slice(words, state.word_index, Len(words)))] >>

\* Lines 759-767: the blocks of the result.
build_blocks(segs) ==
    [i \in 1..Len(segs) |->
        [num     |-> segs[i].num,
         numeric |-> TRUE,
         ts      |-> segs[i].timestamp,
         text    |-> segs[i].text]]

\* The word stream dealt out from its second word on.
redistribute_stream_SkipsFirstWord(processed, words, segs, loss) ==
    IF words = <<>> THEN processed
    ELSE build_blocks(with_remaining(words, segs,
             distribute_words(words, segs, 1, [word_index |-> 1, segments |-> <<>>],
                              loss)))

\* Lines 706-769.
redistribute_stream(processed, words, segs, loss) ==
    IF words = <<>> THEN processed
    ELSE build_blocks(with_remaining(words, segs,
             distribute_words(words, segs, 1, [word_index |-> 0, segments |-> <<>>],
                              loss)))

\* Lines 698-704.
redistribute_texts(processed, texts, segs, loss) ==
    IF texts = <<>> \/ segs = <<>> THEN processed
    ELSE redistribute_stream(processed, Split(Join(texts)), segs, loss)

redistribute_original_text(original, processed, loss) ==
    redistribute_texts(processed, original_texts(original),
                       processed_segments(processed), loss)

\* The words of a transcript, in block order.
words_of(content) == Split(Join(original_texts(content)))

\* The segments at which int((i + 1) * (W / n)) can fall one short: the
\* exact product is a whole number and W / n is not exact in binary.
LossSites(W, n) ==
    { i \in 1..n : (i * W) % n = 0 /\ i * W # 0 /\ ~Dyadic(W, n) }

\* Block texts: none (a block of two lines), "a", "b  c", "d e" over "f g h".
OriginalTextKinds ==
    { <<>>, <<"a">>, <<"b", " ", " ", "c">>,
      <<"d", " ", "e", "\n", "f", " ", "g", " ", "h">> }

ProcessedTextKinds == { <<>>, <<"x", " ", "y">> }

NextBlock(content, text) ==
    [num     |-> Len(content) + 1,
     numeric |-> TRUE,
     ts      |-> TimeRange(TimestampOf(1000 * Len(content)),
                           TimestampOf(1000 * Len(content) + 900)),
     text    |-> text]

TextInit ==
    /\ pc = "original"
    /\ original_srt_content = <<>>
    /\ processed_srt_content = <<>>
    /\ float_loss = {}
    /\ text_result = <<>>
    /\ text_result_again = <<>>
    /\ TranslateIdle
    /\ srt_input = <<>>
    /\ srt_content = <<>>
    /\ pass_char_limit = 0
    /\ split_log = <<>>
    /\ segments = <<>>
    /\ max_gap_ms = 0
    /\ groups = <<>>
    /\ group = <<>>
    /\ min_duration_ms = 0
    /\ gap_ms = 0
    /\ redistributed = <<>>

AddOriginal ==
    /\ pc = "original"
    /\ Len(original_srt_content) < MaxOriginal
    /\ \E text \in OriginalTextKinds :
          original_srt_content' =
              Append(original_srt_content, NextBlock(original_srt_content, text))
    /\ UNCHANGED <<pc, processed_srt_content, float_loss, text_result, text_result_again,
                   timing_vars, pipeline_vars, translate_vars>>

AddProcessed ==
    /\ pc \in {"original", "processed"}
    /\ Len(processed_srt_content) < MaxProcessed
    /\ \E text \in ProcessedTextKinds :
          processed_srt_content' =
              Append(processed_srt_content, NextBlock(processed_srt_content, text))
    /\ pc' = "processed"
    /\ UNCHANGED <<original_srt_content, float_loss, text_result, text_result_again,
                   timing_vars, pipeline_vars, translate_vars>>

Redistribute ==
    /\ pc \in {"original", "processed"}
    /\ \E loss \in SUBSET LossSites(Len(words_of(original_srt_content)),
                                    Len(processed_segments(processed_srt_content))) :
          /\ float_loss' = loss
          /\ text_result' = redistribute_original_text(original_srt_content,
                                                       processed_srt_content, loss)
    /\ pc' = "text_done"
    /\ UNCHANGED <<original_srt_content, processed_srt_content, text_result_again,
                   timing_vars, pipeline_vars, translate_vars>>

\* The pass applied to its own output: the same word count meets the same
\* float products.
Reapply ==
    /\ pc = "text_done"
    /\ \E loss \in SUBSET LossSites(Len(words_of(text_result)),
                                    Len(processed_segments(processed_srt_content))) :
          /\ Len(words_of(text_result)) = Len(words_of(original_srt_content))
                => loss = float_loss
          /\ text_result_again' = redistribute_original_text(text_result,
                                                             processed_srt_content, loss)
    /\ pc' = "text_again"
    /\ UNCHANGED <<original_srt_content, processed_srt_content, float_loss, text_result,
                   timing_vars, pipeline_vars, translate_vars>>

TextNext == AddOriginal \/ AddProcessed \/ Redistribute \/ Reapply

SpecText == TextInit /\ [][TextNext]_vars

(***************************************************************************)
(* Transcript codec, srt_to_json and json_to_srt of src/main.py.  An index *)
(* line is kept as the string it is; a dict is the sequence of its items   *)
(* in insertion order, each item with its key k.                           *)
(***************************************************************************)
CanonicalIndex == <<"1", "2", "3", "4", "5">>

PaddedIndex == <<"01", "02", "03", "04", "05">>

\* Whether int(k) succeeds, and its value.
IsIntKey(k) ==
    k = "0" \/ \E n \in 1..Len(CanonicalIndex) : k \in {CanonicalIndex[n], PaddedIndex[n]}

IntOf(k) ==
    IF k = "0" THEN 0
    ELSE CHOOSE n \in 1..Len(CanonicalIndex) : k \in {CanonicalIndex[n], PaddedIndex[n]}

\* str(n)
StrOf(n) == IF n = 0 THEN "0" ELSE CanonicalIndex[n]

DictKeys(d) == { d[i].k : i \in 1..Len(d) }

DictGet(d, key) == d[CHOOSE i \in 1..Len(d) : d[i].k = key]

\* d[item.k] = item: a key already there keeps its place.
DictPut(d, item) ==
    IF item.k \in DictKeys(d)
    THEN [i \in 1..Len(d) |-> IF d[i].k = item.k THEN item ELSE d[i]]
    ELSE Append(d, item)

\* Lines 226-235: the item of one block; is_str tells that the value under
\* "s" is a str.
json_item(block) ==
    [k      |-> block.index,
     t      |-> block.ts,
     s      |-> Strip(NewlinesToSpaces(block.text)),
     is_str |-> TRUE]

\* Lines 219-238.
RECURSIVE srt_to_json_from(_, _, _)
srt_to_json_from(blocks, i, json_data) ==
    IF i > Len(blocks) THEN json_data
    ELSE srt_to_json_from(blocks, i + 1,
             IF HasThreeLines(blocks[i]) THEN DictPut(json_data, json_item(blocks[i]))
             ELSE json_data)

srt_to_json(content) == srt_to_json_from(content, 1, <<>>)

\* Lines 245-248 raise on a key that is no integer, line 256 on a value
\* under "s" that is no str.
json_to_srt_raises(json_data) ==
    \E i \in 1..Len(json_data) :
        ~IsIntKey(json_data[i].k) \/ ~json_data[i].is_str

srt_lines_of(sorted_segments) ==
    [i \in 1..Len(sorted_segments) |->
        [index |-> StrOf(IntOf(sorted_segments[i].k)),
         ts    |-> sorted_segments[i].t,
         text  |-> sorted_segments[i].s]]

\* Lines 240-256: sorted by int(k), stably, and written with str(int(k)).
json_to_srt(json_data) ==
    srt_lines_of(SortByKey([i \in 1..Len(json_data) |-> IntOf(json_data[i].k)],
                           json_data))

\* The block as the post-processing passes read it: int(lines[0]).
indexed_block(block) ==
    [num     |-> IF IsIntKey(block.index) THEN IntOf(block.index) ELSE 0,
     numeric |-> IsIntKey(block.index),
     ts      |-> block.ts,
     text    |-> block.text]

indexed_blocks(content) == [i \in 1..Len(content) |-> indexed_block(content[i])]

TimingIdle ==
    /\ segments = <<>>
    /\ max_gap_ms = 0
    /\ groups = <<>>
    /\ group = <<>>
    /\ min_duration_ms = 0
    /\ gap_ms = 0
    /\ redistributed = <<>>

PipelineIdle ==
    /\ srt_input = <<>>
    /\ srt_content = <<>>
    /\ pass_char_limit = 0
    /\ split_log = <<>>

TextIdle ==
    /\ original_srt_content = <<>>
    /\ processed_srt_content = <<>>
    /\ float_loss = {}
    /\ text_result = <<>>
    /\ text_result_again = <<>>

(***************************************************************************)
(* The transcript parsers: parse_srt_content of src/timing_redistributor.py *)
(* and the parse loop of group_continuous_subtitles_for_timing of          *)
(* src/main.py, on blocks of every shape.                                  *)
(***************************************************************************)
\* timing_redistributor.py, lines 63-90.
parse_srt_content(content) ==
    LET blocks == SelectSeq(content,
                      LAMBDA b : HasThreeLines(b) /\ b.numeric /\ b.ts.arrow)
    IN  [i \in 1..Len(blocks) |->
            [number   |-> blocks[i].num,
             start_ms |-> parse_timestamp_tr(blocks[i].ts.st),
             end_ms   |-> parse_timestamp_tr(blocks[i].ts.en),
             text     |-> Strip(blocks[i].text)]]

\* The text lines of a block: none (the block has two lines), one, two.
ParsedTexts == {<<>>, TextShort, TextLines}

\* A time that is not of the form HH:MM:SS,mmm.
Malformed(t) == [t EXCEPT !.wf = FALSE]

\* A time of the form HH:MM:SS,mmm with 75 in the seconds field.
SecondsOutOfRange(t) == [t EXCEPT !.s = 75]

\* The start time of a block as written: well formed, out of range, or
\* not of the form at all.
StartTime(t, kind) ==
    IF kind = "malformed" THEN Malformed(t)
    ELSE IF kind = "seconds_over_59" THEN SecondsOutOfRange(t)
    ELSE t

StartKinds == {"well_formed", "seconds_over_59", "malformed"}

ParseInit ==
    /\ pc = "blocks"
    /\ TimingIdle
    /\ PipelineIdle
    /\ TextIdle
    /\ TranslateIdle

\* The next block of the input: its index line is an integer or not, its
\* time-range line has the arrow or not, its start time is of any kind.
\* The indices ascend or descend.
AddBlock ==
    /\ pc = "blocks"
    /\ Len(srt_content) < MaxBlocks
    /\ \E text \in ParsedTexts, arrow \in BOOLEAN, numeric \in BOOLEAN :
       \E start_kind \in StartKinds, first_num \in {1, MaxBlocks} :
          LET number == IF srt_content = <<>> THEN first_num
                        ELSE IF srt_content[1].num = 1 THEN Len(srt_content) + 1
                        ELSE MaxBlocks - Len(srt_content)
              start == TimestampOf(1000 * (Len(srt_content) + 1))
              end == TimestampOf(1000 * (Len(srt_content) + 1) + 900)
          IN  /\ srt_content # <<>> => first_num = 1
              /\ srt_content' =
                    Append(srt_content,
                           [num     |-> number,
                            numeric |-> numeric,
                            ts      |-> [arrow |-> arrow,
                                         st    |-> StartTime(start, start_kind),
                                         en    |-> end],
                            text    |-> text])
    /\ UNCHANGED <<pc, srt_input, pass_char_limit, split_log,
                   timing_vars, text_vars, translate_vars>>

\* main.py, lines 775-800.
ParseForTiming ==
    /\ pc = "blocks"
    /\ segments' = parse_for_timing(srt_content)
    /\ pc' = "parsed"
    /\ UNCHANGED <<max_gap_ms, groups, group, min_duration_ms, gap_ms, redistributed,
                   pipeline_vars, text_vars, translate_vars>>

\* timing_redistributor.py, lines 63-90.
ParseSrtContent ==
    /\ pc = "blocks"
    /\ segments' = parse_srt_content(srt_content)
    /\ pc' = "parsed_tr"
    /\ UNCHANGED <<max_gap_ms, groups, group, min_duration_ms, gap_ms, redistributed,
                   pipeline_vars, text_vars, translate_vars>>

ParseNext == AddBlock \/ ParseForTiming \/ ParseSrtContent

SpecParse == ParseInit /\ [][ParseNext]_vars

(***************************************************************************)
(* The codec applied twice: srt_input is a transcript T, subtitle_json is  *)
(* srt_to_json(T), srt_content is json_to_srt of it, translated_result is  *)
(* srt_to_json of that text and translated_srt is json_to_srt again.       *)
(***************************************************************************)
\* The index lines of the input: an integer written plainly or with a
\* leading zero, or no integer.
IndexLines ==
    { CanonicalIndex[n] : n \in 1..MaxBlocks } \cup { PaddedIndex[n] : n \in 1..MaxBlocks }
        \cup {"x"}

CodecInit ==
    /\ pc = "transcript"
    /\ TimingIdle
    /\ PipelineIdle
    /\ TextIdle
    /\ TranslateIdle

\* The next block of T: any index line, in any order; no, one or two text
\* lines.
AddRawBlock ==
    /\ pc = "transcript"
    /\ Len(srt_input) < MaxBlocks
    /\ \E index \in IndexLines, text \in ParsedTexts :
          srt_input' =
              Append(srt_input,
                     [index |-> index,
                      ts    |-> TimeRange(TimestampOf(1000 * Len(srt_input)),
                                          TimestampOf(1000 * Len(srt_input) + 900)),
                      text  |-> text])
    /\ UNCHANGED <<pc, srt_content, pass_char_limit, split_log,
                   timing_vars, text_vars, translate_vars>>

\* srt_to_json(T)
ParseTranscript ==
    /\ pc = "transcript"
    /\ subtitle_json' = srt_to_json(srt_input)
    /\ pc' = "json"
    /\ UNCHANGED <<chunks, single_request, parsed_result, validation, translated_chunks,
                   translated_result, translated_srt,
                   timing_vars, pipeline_vars, text_vars>>

\* json_to_srt of the mapping, or its exception.
SerializeJson ==
    /\ pc = "json"
    /\ IF json_to_srt_raises(subtitle_json)
       THEN /\ pc' = "codec_raised"
            /\ UNCHANGED srt_content
       ELSE /\ pc' = "srt"
            /\ srt_content' = json_to_srt(subtitle_json)
    /\ UNCHANGED <<srt_input, pass_char_limit, split_log,
                   timing_vars, text_vars, translate_vars>>

\* srt_to_json of the serialized text.
ParseAgain ==
    /\ pc = "srt"
    /\ translated_result' = srt_to_json(srt_content)
    /\ pc' = "json_again"
    /\ UNCHANGED <<subtitle_json, chunks, single_request, parsed_result, validation,
                   translated_chunks, translated_srt,
                   timing_vars, pipeline_vars, text_vars>>

\* json_to_srt of the second mapping, or its exception.
SerializeAgain ==
    /\ pc = "json_again"
    /\ IF json_to_srt_raises(translated_result)
       THEN /\ pc' = "codec_raised"
            /\ UNCHANGED translated_srt
       ELSE /\ pc' = "srt_again"
            /\ translated_srt' = json_to_srt(translated_result)
    /\ UNCHANGED <<subtitle_json, chunks, single_request, parsed_result, validation,
                   translated_chunks, translated_result,
                   timing_vars, pipeline_vars, text_vars>>

CodecNext ==
    AddRawBlock \/ ParseTranscript \/ SerializeJson \/ ParseAgain \/ SerializeAgain

SpecCodec == CodecInit /\ [][CodecNext]_vars

(***************************************************************************)
(* find_punctuation_split_point on its own: srt_input is the text it is    *)
(* given, pass_char_limit its char_limit, split_log its result.            *)
(***************************************************************************)
\* The largest distance between the comma and the digit on either side.
MaxDistance == 6

SearchCharLimits == {20, 40, 60}

\* Two words around a comma, with a digit `before` characters before the
\* comma and a digit `after` characters after it, letters in between.
NumberText(before, after) ==
    Rep("a", 6) \o <<" ", "1">> \o Rep("x", before - 1) \o <<",">>
        \o Rep("y", after - 1) \o <<"2", " ">> \o Rep("b", 6)

SearchInit ==
    /\ pc = "text"
    /\ TimingIdle
    /\ PipelineIdle
    /\ TextIdle
    /\ TranslateIdle

\* The caller's text and limit.
ChooseText ==
    /\ pc = "text"
    /\ \E before \in 1..MaxDistance, after \in 1..MaxDistance :
          srt_input' = NumberText(before, after)
    /\ \E char_limit \in SearchCharLimits : pass_char_limit' = char_limit
    /\ pc' = "chosen"
    /\ UNCHANGED <<srt_content, split_log, timing_vars, text_vars, translate_vars>>

\* find_punctuation_split_point(text, char_limit)
FindPunctuationSplitPoint ==
    /\ pc = "chosen"
    /\ split_log' = <<find_punctuation_split_point(srt_input, pass_char_limit)>>
    /\ pc' = "searched"
    /\ UNCHANGED <<srt_input, srt_content, pass_char_limit,
                   timing_vars, text_vars, translate_vars>>

SearchNext == ChooseText \/ FindPunctuationSplitPoint

SpecSearch == SearchInit /\ [][SearchNext]_vars

(***************************************************************************)
(* Translation contract of src/main.py: validate_translation_structure,    *)
(* reconstruct_with_timestamps, merge_translated_chunks and the flow of    *)
(* translate_with_claude and transcribe_audio around them.  A response is  *)
(* what json.loads returned: whether it is a dict, whether its "success"   *)
(* is truthy, and its other items as a function from key to value.         *)
(***************************************************************************)
Verdict(ok, reason, named) == [ok |-> ok, reason |-> reason, named |-> named]

\* The expected indices whose value in the response is no str.
non_string_nums(expected_nums, translated_data) ==
    { num \in expected_nums \cap DOMAIN translated_data.entries :
        ~translated_data.entries[num].is_str }

\* Lines 1070-1092; first_bad is the index without a str that the loop of
\* line 1087 meets first (the iteration order of a set is not fixed).
validate_translation_structure(original_segments, translated_data, first_bad) ==
    IF ~translated_data.is_dict THEN Verdict(FALSE, "not_a_dictionary", {})
    ELSE IF ~translated_data.success THEN Verdict(FALSE, "unsuccessful", {})
    ELSE IF DictKeys(original_segments) \ DOMAIN translated_data.entries # {}
    THEN Verdict(FALSE, "missing",
                 DictKeys(original_segments) \ DOMAIN translated_data.entries)
    ELSE IF non_string_nums(DictKeys(original_segments), translated_data) # {}
    THEN Verdict(FALSE, "not_string", {first_bad})
    ELSE Verdict(TRUE, "passed", {})

\* reattach with every item given the time range of the first one.
reattach_FirstTimestamp(present, translated_texts) ==
    [i \in 1..Len(present) |->
        [k      |-> present[i].k,
         t      |-> present[1].t,
         s      |-> translated_texts[present[i].k].s,
         is_str |-> translated_texts[present[i].k].is_str]]

\* Lines 1102-1106: the original time range with the translated value.
reattach(present, translated_texts) ==
    [i \in 1..Len(present) |->
        [k      |-> present[i].k,
         t      |-> present[i].t,
         s      |-> translated_texts[present[i].k].s,
         is_str |-> translated_texts[present[i].k].is_str]]

\* Lines 1094-1108; the items "success" and "comment" of the result are
\* left out, as every reader of the result skips them.
reconstruct_with_timestamps(original_segments, translated_texts) ==
    reattach(SelectSeq(original_segments, LAMBDA item : item.k \in DOMAIN translated_texts),
             translated_texts)

\* Lines 1113-1117: a later chunk result overwrites an earlier one.
merged_texts(chunks_results) ==
    [key \in UNION { DOMAIN chunks_results[i].entries : i \in 1..Len(chunks_results) } |->
        chunks_results[SetMax({ i \in 1..Len(chunks_results) :
                                  key \in DOMAIN chunks_results[i].entries })].entries[key]]

\* Lines 1110-1120.
merge_translated_chunks(chunks_results, original_segments) ==
    reconstruct_with_timestamps(original_segments, merged_texts(chunks_results))

\* Lines 972-989, as one function.
split_long_segments_with_punctuation(content, lossy) ==
    redistribute_srt_timing(
        split_advanced_segments(
            redistribute_srt_timing(
                split_advanced_segments(content, pass1_char_limit, lossy),
                pipeline_max_gap_ms, pipeline_min_duration_ms, lossy),
            pass2_char_limit, lossy),
        pipeline_max_gap_ms, pipeline_min_duration_ms, lossy)

\* The transcript whose blocks carry the indices of K, in ascending order.
KthSmallest(K, i) == CHOOSE n \in K : Cardinality({ m \in K : m <= n }) = i

TranscriptOf(K) ==
    [i \in 1..Cardinality(K) |->
        [index |-> StrOf(KthSmallest(K, i)),
         ts    |-> TimeRange(TimestampOf(1000 * KthSmallest(K, i)),
                             TimestampOf(1000 * KthSmallest(K, i) + 900)),
         text  |-> <<"o", " ", StrOf(KthSmallest(K, i))>>]]

\* chunk_subtitles (lines 1025-1068) cuts the indices, in ascending order,
\* into runs; where it cuts depends on the token estimates, so every set of
\* cuts is taken.
ChunksFor(K, cuts) ==
    [j \in 1..(Cardinality(cuts) + 1) |->
        { StrOf(n) : n \in { m \in K : Cardinality({ c \in cuts : c < m }) = j - 1 } }]

ResponseKeys == {"0"} \cup { StrOf(n) : n \in 1..MaxIndex }

\* The values a response of the c-th request can hold: a text or no str.
TranslatedValues(c) ==
    { [is_str |-> TRUE, s |-> <<"t", " ", StrOf(c)>>], [is_str |-> FALSE, s |-> <<>>] }

NotADict == [is_dict |-> FALSE, success |-> FALSE, entries |-> <<>>]

Responses(c) ==
    {NotADict} \cup
    { [is_dict |-> TRUE, success |-> success, entries |-> entries] :
        success \in BOOLEAN,
        entries \in { e \in UNION { [D -> TranslatedValues(c)] : D \in SUBSET ResponseKeys } :
                        "0" \in DOMAIN e => e["0"].is_str } }

TranslateInit ==
    /\ pc = "submit"
    /\ TranslateIdle
    /\ TimingIdle
    /\ PipelineIdle
    /\ TextIdle

\* transcribe_audio, line 2061, and the branch of translate_with_claude,
\* lines 1305-1330: one request, or the chunks of chunk_subtitles.
Submit ==
    /\ pc = "submit"
    /\ \E K \in SUBSET (1..MaxIndex), single \in BOOLEAN, cuts \in SUBSET (1..MaxIndex) :
          /\ K # {}
          /\ cuts \subseteq K \ {SetMax(K)}
          /\ single => cuts = {}
          /\ subtitle_json' = srt_to_json(TranscriptOf(K))
          /\ chunks' = ChunksFor(K, cuts)
          /\ single_request' = single
    /\ pc' = "request"
    /\ UNCHANGED <<parsed_result, validation, translated_chunks, translated_result,
                   translated_srt, timing_vars, pipeline_vars, text_vars>>

\* The segments of one chunk.
chunk_segments(original_segments, chunk) ==
    SelectSeq(original_segments, LAMBDA item : item.k \in chunk)

\* What translate_with_claude returns after its last request.
translation_of(original_segments, chunks_results, single) ==
    IF single
    THEN reconstruct_with_timestamps(original_segments, chunks_results[1].entries)
    ELSE merge_translated_chunks(chunks_results, original_segments)

\* translate_chunk_with_claude for the next chunk, lines 1262-1275, and what
\* translate_with_claude does with its outcome, lines 1308-1353: a failed
\* validation raises and the exception leaves translate_with_claude; after
\* the last chunk the result is reconstructed.
Respond ==
    /\ pc = "request"
    /\ \E response \in Responses(Len(translated_chunks) + 1) :
       \E first_bad \in non_string_nums(chunks[Len(translated_chunks) + 1], response)
                          \cup {"0"} :
          /\ first_bad = "0" =>
                non_string_nums(chunks[Len(translated_chunks) + 1], response) = {}
          /\ parsed_result' = response
          /\ validation' =
                [expected |-> chunks[Len(translated_chunks) + 1],
                 verdict  |-> validate_translation_structure(
                                  chunk_segments(subtitle_json,
                                                 chunks[Len(translated_chunks) + 1]),
                                  response, first_bad)]
          /\ IF ~validation'.verdict.ok
             THEN /\ pc' = "error"
                  /\ UNCHANGED <<translated_chunks, translated_result>>
             ELSE /\ translated_chunks' = Append(translated_chunks, response)
                  /\ IF Len(translated_chunks') = Len(chunks)
                     THEN /\ translated_result' =
                                translation_of(subtitle_json, translated_chunks',
                                               single_request)
                          /\ pc' = "translated"
                     ELSE /\ pc' = "request"
                          /\ UNCHANGED translated_result
    /\ UNCHANGED <<subtitle_json, chunks, single_request, translated_srt,
                   timing_vars, pipeline_vars, text_vars>>

\* transcribe_audio, lines 2084-2091: json_to_srt, then the post-processing
\* passes.
PostProcess ==
    /\ pc = "translated"
    /\ IF json_to_srt_raises(translated_result)
       THEN /\ pc' = "error"
            /\ UNCHANGED translated_srt
       ELSE \E lossy \in BOOLEAN :
            IF split_raises(indexed_blocks(json_to_srt(translated_result)),
                            pass1_char_limit)
            THEN /\ pc' = "error"
                 /\ UNCHANGED translated_srt
            ELSE /\ pc' = "post_processed"
                 /\ translated_srt' =
                       split_long_segments_with_punctuation(
                           indexed_blocks(json_to_srt(translated_result)), lossy)
    /\ UNCHANGED <<subtitle_json, chunks, single_request, parsed_result, validation,
                   translated_chunks, translated_result,
                   timing_vars, pipeline_vars, text_vars>>

TranslateNext == Submit \/ Respond \/ PostProcess

SpecTranslate == TranslateInit /\ [][TranslateNext]_vars

(***************************************************************************)
(* transcribe_audio of src/main.py step by step, lines 2061-2096: the      *)
(* transcript is converted and translated as in SpecTranslate, then        *)
(* srt_content follows the text through json_to_srt and the four calls of  *)
(* split_long_segments_with_punctuation.                                   *)
(***************************************************************************)
\* The transcript speechmatics_transcribe returned, read off the keys of
\* srt_to_json's mapping.
Transcribed ==
    TranscriptOf({ IntOf(subtitle_json[i].k) : i \in 1..Len(subtitle_json) })

\* Line 2084: json_to_srt of the translated mapping, or its exception.
Serialize ==
    /\ pc = "translated"
    /\ IF json_to_srt_raises(translated_result)
       THEN /\ pc' = "error"
            /\ UNCHANGED <<srt_input, srt_content>>
       ELSE /\ pc' = "serialized"
            /\ srt_input' = indexed_blocks(json_to_srt(translated_result))
            /\ srt_content' = indexed_blocks(json_to_srt(translated_result))
    /\ UNCHANGED <<pass_char_limit, split_log, timing_vars, text_vars, translate_vars>>

\* Line 977, entered from line 2091.
HandlerSplitPass1 ==
    pc = "serialized" /\ \E lossy \in BOOLEAN : SplitPass(pass1_char_limit, lossy, "pass1")

\* Lines 2091-2096: the post-processed translation, and the original
\* transcript dealt out over its segments.
MatchOriginal ==
    /\ pc = "done"
    /\ translated_srt' = srt_content
    /\ \E loss \in SUBSET LossSites(Len(words_of(indexed_blocks(Transcribed))),
                                    Len(processed_segments(srt_content))) :
          /\ float_loss' = loss
          /\ text_result' = redistribute_original_text(indexed_blocks(Transcribed),
                                                       srt_content, loss)
    /\ pc' = "post_processed"
    /\ UNCHANGED <<original_srt_content, processed_srt_content, text_result_again,
                   subtitle_json, chunks, single_request, parsed_result, validation,
                   translated_chunks, translated_result, timing_vars, pipeline_vars>>

HandlerNext ==
    Submit \/ Respond \/ Serialize \/ HandlerSplitPass1 \/ Redistribute1 \/ SplitPass2
        \/ Redistribute2 \/ MatchOriginal

SpecHandler == TranslateInit /\ [][HandlerNext]_vars

(***************************************************************************)
(* Properties of the redistributor and the grouper.                        *)
(***************************************************************************)
Redone == pc \in {"redistributed", "redistributed_tr"}

Span(g) == g[Len(g)].end_ms - g[1].start_ms

TotalWords(g) == SumSeq([i \in 1..Len(g) |-> count_words_in_text(g[i].text)])

\* Each segment lasts, and each starts no earlier than the one before ends.
TimeOrdered(g) ==
    /\ \A i \in 1..Len(g) : g[i].end_ms > g[i].start_ms
    /\ \A i \in 1..(Len(g) - 1) : g[i + 1].start_ms >= g[i].end_ms

NoOverlap(g) == \A i \in 1..(Len(g) - 1) : g[i + 1].start_ms >= g[i].end_ms

\* C1: for a group of two or more segments, the redistributed group starts
\* where the input group starts and ends where the input group ends.
C1_BoundaryPreserved ==
    (Redone /\ Len(group) >= 2) =>
        /\ Len(redistributed) = Len(group)
        /\ redistributed[1].start_ms = group[1].start_ms
        /\ redistributed[Len(group)].end_ms = group[Len(group)].end_ms

\* C1 witness: a group of three was redistributed and an inner boundary moved.
C1_Witness ==
    /\ pc = "redistributed"
    /\ Len(group) = 3
    /\ ~ReturnsUnchanged(group)
    /\ redistributed[2].start_ms # group[2].start_ms

\* C2: every segment of the redistributed group has end_ms > start_ms, for
\* every time-ordered input group of two or more segments of positive
\* duration, also when the span is below n * min_duration_ms.
C2_PositiveDuration ==
    (Redone /\ Len(group) >= 2 /\ TimeOrdered(group)) =>
        \A i \in 1..Len(redistributed) :
            redistributed[i].end_ms > redistributed[i].start_ms

\* C3, as claimed: no two adjacent segments of the returned group overlap,
\* for every input group.
C3_NoOverlapEveryGroup == Redone => NoOverlap(redistributed)

\* C3, amended: no two adjacent segments of the returned group overlap
\* whenever the group is in fact redistributed (two or more segments, a
\* positive total word count and a positive span).
C3_NoOverlapWhenRedistributed ==
    (Redone /\ Len(group) >= 2 /\ TotalWords(group) > 0 /\ Span(group) > 0) =>
        NoOverlap(redistributed)

\* C3 witness: an input group with overlapping segments was redistributed.
C3_Witness ==
    /\ pc = "redistributed"
    /\ Len(group) >= 2
    /\ TotalWords(group) > 0
    /\ Span(group) > 0
    /\ ~NoOverlap(group)
    /\ redistributed # group

\* Position in segments of the first segment of group k.
RECURSIVE GroupOffset(_, _)
GroupOffset(gs, k) == IF k <= 1 THEN 0 ELSE Len(gs[k - 1]) + GroupOffset(gs, k - 1)

\* The group that holds the segment at position i of the input.
GroupIndexOf(gs, i) ==
    CHOOSE k \in 1..Len(gs) : GroupOffset(gs, k) < i /\ i <= GroupOffset(gs, k) + Len(gs[k])

Grouped == pc \in {"grouped", "redistributed", "redistributed_tr"}

\* C4: the groups are non-empty, their concatenation is the input, and two
\* adjacent segments share a group exactly when the gap between them is at
\* most max_gap_ms.
C4_GroupsPartitionByGap ==
    Grouped =>
        /\ \A k \in 1..Len(groups) : groups[k] # <<>>
        /\ Concat(groups) = segments
        /\ \A i \in 1..(Len(segments) - 1) :
              (GroupIndexOf(groups, i) = GroupIndexOf(groups, i + 1))
                  <=> (segments[i + 1].start_ms - segments[i].end_ms <= max_gap_ms)

\* C4 witness: one gap equal to the threshold continued a group and a larger
\* gap started a new one.
C4_Witness ==
    /\ pc = "grouped"
    /\ Len(segments) = 3
    /\ segments[2].start_ms - segments[1].end_ms = max_gap_ms
    /\ segments[3].start_ms - segments[2].end_ms > max_gap_ms
    /\ Len(groups) = 2
    /\ Len(groups[1]) = 2

\* C5: a group of at most one segment, of zero total words or of zero or
\* negative span is returned unchanged.
C5_DegenerateUnchanged ==
    (Redone /\ (\/ Len(group) <= 1
                \/ TotalWords(group) = 0
                \/ Span(group) <= 0)) =>
        redistributed = group

\* C5 witness: a group of several segments with words and a negative span
\* came back unchanged.
C5_Witness ==
    /\ Redone
    /\ Len(group) >= 2
    /\ TotalWords(group) > 0
    /\ Span(group) < 0
    /\ redistributed = group

(***************************************************************************)
(* Properties of the splitter and the two-pass pipeline.                   *)
(***************************************************************************)
Duration(ts) == parse_timestamp(ts.en) - parse_timestamp(ts.st)

\* The first millisecond format_timestamp cannot write: 100 hours.
FormatLimitMs == (99 + 1) * 3600 * 1000

\* The children of a split start at the original start, end at the original
\* end, lie 30 ms apart and last 200 ms each, so that their durations and
\* the gap add up to the original duration.
ChildrenTimed(e) ==
    /\ e.first.timestamp.st = e.original.timestamp.st
    /\ e.second.timestamp.en = e.original.timestamp.en
    /\ parse_timestamp(e.second.timestamp.st)
         - parse_timestamp(e.first.timestamp.en) = split_gap_ms
    /\ Duration(e.first.timestamp) >= min_segment_duration
    /\ Duration(e.second.timestamp) >= min_segment_duration
    /\ Duration(e.first.timestamp) + Duration(e.second.timestamp) + split_gap_ms
         = Duration(e.original.timestamp)

\* C6 as stated: whenever split_advanced_segments splits a segment into two,
\* the first child starts at the original start, the second child ends at
\* the original end, the second starts exactly 30 ms after the first ends and
\* each child lasts at least 200 ms, so the child durations plus the gap equal
\* the original duration.
C6_SplitChildrenTiming ==
    \A i \in 1..Len(split_log) : ChildrenTimed(split_log[i])

\* C6 amended: the same, for every split of a segment that ends before
\* 100 hours, the largest time format_timestamp writes without clamping.
C6_SplitChildrenTimingBelowClamp ==
    \A i \in 1..Len(split_log) :
        parse_timestamp(split_log[i].original.timestamp.en) < FormatLimitMs
            => ChildrenTimed(split_log[i])

\* A split below the clamp whose children got unequal, word-proportional
\* durations.
C6_Witness ==
    /\ pc \in {"pass1", "pass2", "split"}
    /\ \E i \in 1..Len(split_log) :
          /\ parse_timestamp(split_log[i].original.timestamp.en) < FormatLimitMs
          /\ Duration(split_log[i].first.timestamp)
                # Duration(split_log[i].second.timestamp)

ConsecutivelyNumbered(content) ==
    \A i \in 1..Len(content) : content[i].numeric /\ content[i].num = i

InputTimeOrdered ==
    /\ \A i \in 1..Len(srt_input) :
          /\ srt_input[i].numeric
          /\ srt_input[i].ts.arrow
          /\ Duration(srt_input[i].ts) > 0
    /\ \A i \in 1..(Len(srt_input) - 1) :
          parse_timestamp(srt_input[i].ts.en) <= parse_timestamp(srt_input[i + 1].ts.st)

\* C8 as stated: for a time-ordered, non-overlapping input the start times of
\* the blocks produced by split_long_segments_with_punctuation are
\* non-decreasing in output order.
C8_OutputStartsNonDecreasing ==
    (pc = "done" /\ InputTimeOrdered) =>
        \A i \in 1..(Len(srt_content) - 1) :
            parse_timestamp(srt_content[i].ts.st)
                <= parse_timestamp(srt_content[i + 1].ts.st)

(***************************************************************************)
(* Properties of redistribute_original_text.                               *)
(***************************************************************************)
OriginalWords == words_of(original_srt_content)

NumProcessed == Len(processed_segments(processed_srt_content))

\* C9 as stated: the words of the output segments, in segment order, are the
\* original transcript's word sequence, nothing lost, duplicated or
\* reordered, for every number of original words and of processed segments.
C9_WordStreamConserved ==
    pc \in {"text_done", "text_again"} => words_of(text_result) = OriginalWords

\* C9 amended: the same, whenever there is at least one original word and at
\* least one processed segment; the output then has no more segments than
\* the processed transcript.
C9_WordStreamConservedNonEmpty ==
    (pc \in {"text_done", "text_again"} /\ OriginalWords # <<>> /\ NumProcessed >= 1) =>
        /\ words_of(text_result) = OriginalWords
        /\ Len(text_result) <= NumProcessed

\* The float product fell short at the last of several segments, so the
\* remaining word was appended to the last output segment.
C9_Witness ==
    /\ pc = "text_done"
    /\ NumProcessed >= 2
    /\ NumProcessed \in float_loss
    /\ Len(OriginalWords) > NumProcessed
    /\ words_of(text_result) = OriginalWords

\* C10: when the original and the processed transcript have the same number
\* of segments, applying redistribute_original_text to its own output with
\* the same processed transcript returns the same segments and texts.
C10_IdempotentWhenCountsMatch ==
    (pc = "text_again" /\ Len(original_texts(original_srt_content)) = NumProcessed) =>
        text_result_again = text_result

\* A second application in the 1:1 case after a first one that moved words
\* between segments.
C10_Witness ==
    /\ pc = "text_again"
    /\ NumProcessed >= 2
    /\ Len(original_texts(original_srt_content)) = NumProcessed
    /\ original_texts(text_result) # original_texts(original_srt_content)
    /\ text_result_again = text_result

\* C11 as stated: for an original transcript with at least one word the
\* output of redistribute_original_text has exactly one segment per segment
\* of the processed transcript, each with that segment's index and
\* time-range line, also when the original has fewer words than the
\* processed transcript has segments.
C11_OneSegmentPerProcessed ==
    (pc \in {"text_done", "text_again"} /\ OriginalWords # <<>>) =>
        processed_segments(text_result) = processed_segments(processed_srt_content)

(***************************************************************************)
(* Properties of the translation contract.                                 *)
(***************************************************************************)
Validated == pc \in {"request", "translated", "post_processed", "error"} /\ validation # <<>>

\* The expected indices absent from the validated response.
MissingNums == validation.expected \ DOMAIN parsed_result.entries

\* The expected indices that the validated response maps to no str.
NonStringNums == non_string_nums(validation.expected, parsed_result)

\* A failed validation leaves translate_with_claude as an error: nothing
\* is appended, reconstructed or post-processed.
FailurePropagates ==
    ~validation.verdict.ok =>
        /\ pc = "error"
        /\ translated_result = <<>>
        /\ translated_srt = <<>>

\* C12: for a response that is a dict, validation fails naming the missing
\* indices whenever an original index is absent, fails naming the index
\* whenever an expected index maps to no str, succeeds only when every
\* original index is present with a str, and a failed validation of a
\* chunk propagates as an error.
C12_ValidationNamesEveryFault ==
    (Validated /\ parsed_result.is_dict) =>
        /\ MissingNums # {} =>
              /\ ~validation.verdict.ok
              /\ validation.verdict.reason = "missing"
              /\ validation.verdict.named = MissingNums
        /\ NonStringNums # {} =>
              /\ ~validation.verdict.ok
              /\ validation.verdict.reason = "not_string"
              /\ validation.verdict.named # {}
              /\ validation.verdict.named \subseteq NonStringNums
        /\ validation.verdict.ok => (MissingNums = {} /\ NonStringNums = {})
        /\ FailurePropagates

\* The mapping from index to translated value that the requests returned:
\* the one response, or the chunk responses with a later one overwriting.
TranslatedTexts ==
    IF single_request THEN translated_chunks[1].entries
    ELSE merged_texts(translated_chunks)

\* C13: in the result of translate_with_claude, for one request or for
\* chunks, every original index present in the translation carries the
\* original time range unchanged and the translated text, no index outside
\* the original appears, and the post-processing passes only run on a
\* result whose time ranges have been re-attached.
C13_OriginalTimestampsReattached ==
    /\ pc \in {"translated", "post_processed"} =>
          /\ \A i \in 1..Len(translated_result) :
                /\ translated_result[i].k \in DictKeys(subtitle_json)
                /\ translated_result[i].t = DictGet(subtitle_json, translated_result[i].k).t
                /\ translated_result[i].s = TranslatedTexts[translated_result[i].k].s
          /\ DictKeys(translated_result) = DictKeys(subtitle_json) \cap DOMAIN TranslatedTexts
          /\ Len(translated_result) = Cardinality(DictKeys(translated_result))
    /\ translated_srt # <<>> => (pc = "post_processed" /\ translated_result # <<>>)

\* Two chunks were translated, a response held an index outside the
\* original, and the passes ran on the reconstructed result.
C13_Witness ==
    /\ pc = "post_processed"
    /\ ~single_request
    /\ Len(translated_chunks) = 2
    /\ "0" \in DOMAIN TranslatedTexts
    /\ Len(translated_result) = 2
    /\ translated_result[1].t # translated_result[2].t
    /\ translated_srt # <<>>

(***************************************************************************)
(* Properties of the transcript parsers.                                   *)
(***************************************************************************)
Parsed == pc \in {"parsed", "parsed_tr"}

\* A block with an index, a time-range line that splits on the arrow, and
\* text.
IsValidBlock(b) == HasThreeLines(b) /\ b.ts.arrow /\ b.numeric

ValidBlocks == SelectSeq(srt_content, IsValidBlock)

\* The milliseconds the parser of the state reads from a time.
ParsedTime(t) == IF pc = "parsed" THEN parse_timestamp(t) ELSE parse_timestamp_tr(t)

\* C14: the parser returns (it does not raise), no segment comes from a
\* block with fewer than 3 lines or with a time-range line that does not
\* split on ' --> ', and the valid blocks are parsed, each whole, in input
\* order.
C14_MalformedBlocksSkipped ==
    Parsed =>
        /\ Len(segments) = Len(ValidBlocks)
        /\ \A i \in 1..Len(segments) :
              /\ segments[i].number = ValidBlocks[i].num
              /\ segments[i].start_ms = ParsedTime(ValidBlocks[i].ts.st)
              /\ segments[i].end_ms = ParsedTime(ValidBlocks[i].ts.en)
              /\ segments[i].text = Strip(ValidBlocks[i].text)
        /\ \A j \in 1..Len(srt_content) :
              (~HasThreeLines(srt_content[j]) \/ ~srt_content[j].ts.arrow) =>
                 \A i \in 1..Len(segments) : segments[i].number # srt_content[j].num

\* A valid block follows a block without the arrow, the indices descend, and
\* only the valid block is parsed.
C14_Witness ==
    /\ Parsed
    /\ Len(srt_content) = 2
    /\ HasThreeLines(srt_content[1]) /\ ~srt_content[1].ts.arrow /\ srt_content[1].numeric
    /\ srt_content[1].num > srt_content[2].num
    /\ Len(segments) = 1
    /\ segments[1].number = srt_content[2].num

(***************************************************************************)
(* Robustness of the passes.                                               *)
(***************************************************************************)
\* C15: no pass raises on malformed input: split_advanced_segments and
\* redistribute_srt_timing return a transcript for every input, a block
\* with a non-integer index line or a time-range line without ' --> '
\* being dropped or kept while the other blocks are processed.
C15_NoPassRaises == pc # "raised"

(***************************************************************************)
(* Properties of the transcript codec.                                     *)
(***************************************************************************)
\* C16: serialize(parse(serialize(parse(T)))) = serialize(parse(T)) for
\* every transcript T whose index lines are integers, with text of several
\* lines, indices in any order and two index lines that spell the same
\* integer differently.
C16_SerializedFormIsFixedPoint ==
    pc = "srt_again" => translated_srt = srt_content

(***************************************************************************)
(* Properties of the split of one segment.                                 *)
(***************************************************************************)
\* The text the splitter cut: the segment's text, stripped (line 417).
SplitText(pair) == Strip(pair.original.text)

\* The strategy that cut the segment of a pair of the split log.
StrategyOf(pair) == choose_split(SplitText(pair), pass_char_limit).strategy

\* first, then only whitespace, then second make up the text.
Reconstructs(text, first, second) ==
    /\ Len(first) + Len(second) <= Len(text)
    /\ Prefix(text, Len(first)) = first
    /\ Suffix(text, Len(text) - Len(second)) = second
    /\ \A p \in Len(first)..(Len(text) - Len(second) - 1) : IsSpace(At(text, p))

\* C17: when a segment is split, the first part followed by the second one
\* gives back the text but for the whitespace trimmed where it was cut, and
\* the two parts together have at least as many words as the text, whether
\* counted by split() or by count_words_in_text; for every strategy.
C17_SplitLosesNoText ==
    \A i \in 1..Len(split_log) :
        /\ Reconstructs(SplitText(split_log[i]), split_log[i].first.text,
                        split_log[i].second.text)
        /\ Len(Split(split_log[i].first.text)) + Len(Split(split_log[i].second.text))
              >= Len(Split(SplitText(split_log[i])))
        /\ count_words_in_text(split_log[i].first.text)
              + count_words_in_text(split_log[i].second.text)
              >= count_words_in_text(SplitText(split_log[i]))

\* One pass cut a segment in the middle of a word, which adds a word, and
\* another one at a space, which is trimmed.
C17_Witness ==
    /\ Len(split_log) = 2
    /\ StrategyOf(split_log[1]) = "forced_split"
    /\ Len(Split(split_log[1].first.text)) + Len(Split(split_log[1].second.text))
          > Len(Split(SplitText(split_log[1])))
    /\ StrategyOf(split_log[2]) = "word_boundary"
    /\ Len(split_log[2].first.text) + Len(split_log[2].second.text)
          < Len(SplitText(split_log[2]))

(***************************************************************************)
(* Durations and gaps inside a redistributed group.                        *)
(***************************************************************************)
\* The group went through the loop of redistribute_timing_in_group of
\* main.py.
RedistributedByMain == pc = "redistributed" /\ ~ReturnsUnchanged(group)

\* C18: when the span of the group is at least n * min_duration_ms +
\* (n-1) * gap_ms, every segment of the redistributed group, the last one
\* included, lasts at least min_duration_ms.
C18_MinDurationWhenSpanSuffices ==
    (RedistributedByMain
        /\ Span(group) >= Len(group) * min_duration_ms + (Len(group) - 1) * gap_ms) =>
        \A i \in 1..Len(redistributed) :
            redistributed[i].end_ms - redistributed[i].start_ms >= min_duration_ms

\* The first of three segments holds all the words and is cut back by the
\* cap, which leaves the two others min_duration_ms each and the gaps.
C18_Witness ==
    /\ RedistributedByMain
    /\ Len(group) = 3
    /\ gap_ms > 0
    /\ Span(group) > 3 * min_duration_ms + 2 * gap_ms
    /\ redistributed[1].end_ms = group[3].end_ms - 2 * (min_duration_ms + gap_ms)
    /\ redistributed[1].end_ms - redistributed[1].start_ms > min_duration_ms
    /\ redistributed[3].end_ms - redistributed[3].start_ms >= min_duration_ms

\* The gap a redistributed group is to have: the gap_ms of the call, and
\* the default for timing_redistributor.py, whose function takes none.
RequiredGap == IF pc = "redistributed_tr" THEN default_gap_ms ELSE gap_ms

\* C19: in a redistributed group, of either implementation, each segment
\* starts exactly gap_ms after the one before it ends, whenever the span of
\* the group exceeds (n-1) * gap_ms.
C19_GapExactlyGapMs ==
    (Redone /\ ~ReturnsUnchanged(group)
        /\ Span(group) > (Len(group) - 1) * RequiredGap) =>
        \A i \in 1..(Len(redistributed) - 1) :
            redistributed[i + 1].start_ms - redistributed[i].end_ms = RequiredGap

\* C20: when the span of the group minus (n-1) * gap_ms is zero or
\* negative, the gap is shrunk so that the content duration left after
\* the (n-1) shrunken gaps is strictly positive, for every positive span
\* and every n >= 2.
C20_ShrunkenGapsLeaveContent ==
    (pc = "redistributed" /\ ~ReturnsUnchanged(group)
        /\ Span(group) - (Len(group) - 1) * gap_ms <= 0) =>
        /\ EffectiveGap(Span(group), Len(group), gap_ms) < gap_ms
        /\ ContentDuration(Span(group), Len(group), gap_ms) > 0

(***************************************************************************)
(* One pass of split_advanced_segments against its input: in the states    *)
(* "pass1" and "split" srt_content is the output for the input srt_input   *)
(* and the limit pass_char_limit.                                          *)
(***************************************************************************)
SplitOnce == pc \in {"pass1", "split"}

\* The text of a block as the pass reads it: the lines joined by spaces.
JoinedText(b) == NewlinesToSpaces(RStrip(b.text))

\* Input blocks with a time range and a duration below the safety floor.
IsShortBlock(b) ==
    HasThreeLines(b) /\ b.ts.arrow /\ Duration(b.ts) < min_segment_duration * 2 + 100

\* The positions of the output that carry the time range and text of b.
KeptAs(b) ==
    { k \in 1..Len(srt_content) :
        srt_content[k].ts = b.ts /\ srt_content[k].text = JoinedText(b) }

WasSplit(b) == \E i \in 1..Len(split_log) : split_log[i].original.num = b.num

\* What the validation filter of lines 606-641 asks of a segment.
PassesFilter(b) ==
    /\ Len(Strip(b.text)) >= 2
    /\ Duration(b.ts) > 0
    /\ Duration(b.ts) >= noise_floor_ms

\* C21 as stated: a segment that lasts less than 500 ms is never split,
\* whatever the length of its text: it stays one segment with its time range
\* and its text.
C21_ShortSegmentStaysWhole ==
    SplitOnce =>
        \A j \in 1..Len(srt_input) :
            IsShortBlock(srt_input[j]) =>
                /\ ~WasSplit(srt_input[j])
                /\ Cardinality(KeptAs(srt_input[j])) = 1

\* C21, amended: a segment that lasts less than 500 ms is never split; it
\* stays one segment with its time range and its text, unless the validation
\* filter drops it (text below 2 characters or duration below 50 ms), and
\* then no segment comes from it.
C21_ShortSegmentNeverSplit ==
    SplitOnce =>
        \A j \in 1..Len(srt_input) :
            IsShortBlock(srt_input[j]) =>
                /\ ~WasSplit(srt_input[j])
                /\ PassesFilter(srt_input[j]) => Cardinality(KeptAs(srt_input[j])) = 1
                /\ ~PassesFilter(srt_input[j]) =>
                      \A k \in 1..Len(srt_content) : srt_content[k].ts # srt_input[j].ts

\* A segment of 300 ms with a text over the limit was kept whole in a pass
\* that split another segment.
C21_Witness ==
    /\ SplitOnce
    /\ Len(split_log) = 1
    /\ \E j \in 1..Len(srt_input) :
          /\ IsShortBlock(srt_input[j])
          /\ PassesFilter(srt_input[j])
          /\ should_process([text |-> JoinedText(srt_input[j])], pass_char_limit)
          /\ ~WasSplit(srt_input[j])
          /\ KeptAs(srt_input[j]) # {}

SplitDone == pc \in {"pass1", "pass2", "split"}

\* Text of 2 characters, start before end, 50 ms or more.
WellTimed(text, ts) ==
    /\ Len(Strip(text)) >= 2
    /\ Duration(ts) > 0
    /\ Duration(ts) >= noise_floor_ms

InOutput(ts) == \E k \in 1..Len(srt_content) : srt_content[k].ts = ts

\* The segments the pass had before its filter and that fall short: input
\* blocks it did not split, and children of a split.
DroppedCandidates ==
    { srt_input[j].ts : j \in { i \in 1..Len(srt_input) :
          /\ HasThreeLines(srt_input[i])
          /\ srt_input[i].ts.arrow
          /\ ~WasSplit(srt_input[i])
          /\ ~WellTimed(srt_input[i].text, srt_input[i].ts) } }
    \cup { split_log[i].first.timestamp : i \in { l \in 1..Len(split_log) :
          ~WellTimed(split_log[l].first.text, split_log[l].first.timestamp) } }
    \cup { split_log[i].second.timestamp : i \in { l \in 1..Len(split_log) :
          ~WellTimed(split_log[l].second.text, split_log[l].second.timestamp) } }

RoundHalfUp(a, b) == (2 * a + b) \div (2 * b)

RoundHalfEven(a, b) ==
    IF (2 * a) % b = 0 /\ ((2 * a) \div b) % 2 = 1
    THEN (a \div b) + ((a \div b) % 2)
    ELSE RoundHalfUp(a, b)

\* The number of words in the output block of the i-th processed segment,
\* 0 when the output has no block for it.
WordsReceived(i) ==
    LET num == processed_segments(processed_srt_content)[i].num
        blocks == SelectSeq(text_result, LAMBDA b : b.num = num)
    IN  IF blocks = <<>> THEN 0 ELSE Len(Split(blocks[1].text))

\* C23: with W original words and n processed segments, segment i (from 0)
\* receives round((i+1)*W/n) - round(i*W/n) words, for every W >= 1 and
\* n >= 1, round() sending a half upwards or to the even neighbour.
C23_ShareIsRoundedQuota ==
    (pc \in {"text_done", "text_again"} /\ OriginalWords # <<>> /\ NumProcessed >= 1) =>
        \/ \A i \in 1..NumProcessed :
              WordsReceived(i) = RoundHalfUp(i * Len(OriginalWords), NumProcessed)
                                   - RoundHalfUp((i - 1) * Len(OriginalWords), NumProcessed)
        \/ \A i \in 1..NumProcessed :
              WordsReceived(i) = RoundHalfEven(i * Len(OriginalWords), NumProcessed)
                                   - RoundHalfEven((i - 1) * Len(OriginalWords), NumProcessed)

(***************************************************************************)
(* parse_timestamp on the start times of the parsed blocks.                *)
(***************************************************************************)
\* ((HH*3600 + MM*60 + SS) * 1000 + mmm)
Milliseconds(t) == (t.h * 3600 + t.m * 60 + t.s) * 1000 + t.ms

\* C24: parse_timestamp, of main.py and of timing_redistributor.py, returns
\* 0 for a string that does not parse, and for a string of the form
\* HH:MM:SS,mmm, also one whose minutes or seconds exceed 59, the value
\* ((HH*3600 + MM*60 + SS) * 1000 + mmm).
C24_OutOfRangeFieldsStillCounted ==
    Parsed =>
        \A i \in 1..Len(segments) :
            segments[i].start_ms =
                IF ValidBlocks[i].ts.st.wf THEN Milliseconds(ValidBlocks[i].ts.st) ELSE 0

(***************************************************************************)
(* Which segments a pass splits, and by which strategy.                    *)
(***************************************************************************)
\* An input block the pass tries to split: line 424 holds for its text.
IsEligible(b) ==
    /\ HasThreeLines(b)
    /\ b.ts.arrow
    /\ should_process([text |-> JoinedText(b)], pass_char_limit)

\* More than 1.8 times the limit.
IsOverlong(b) == 5 * Len(Strip(JoinedText(b))) > 9 * pass_char_limit

PairOf(b) == split_log[CHOOSE i \in 1..Len(split_log) : split_log[i].original.num = b.num]

\* The punctuation search gave a position whose two parts are long enough.
PunctuationSplits(text) ==
    LET found == find_punctuation_split_point(text, pass_char_limit)
        min_part_length == IF 2 * Len(text) > 3 * pass_char_limit THEN 2 ELSE 3
    IN  /\ found.pos > 0
        /\ Len(Strip(Prefix(text, found.pos + 1))) >= min_part_length
        /\ Len(Strip(Suffix(text, found.pos + 1))) >= min_part_length

\* The word-boundary search gave a space with 3 characters on each side.
WordBoundarySplits(text) ==
    /\ best_space_pos(text) > 0
    /\ Len(Strip(Prefix(text, best_space_pos(text)))) >= 3
    /\ Len(Strip(Suffix(text, best_space_pos(text)))) >= 3

\* The pair is the text cut at its character midpoint.
CutAtMidpoint(pair) ==
    /\ pair.first.text = Strip(Prefix(SplitText(pair), Len(SplitText(pair)) \div 2))
    /\ pair.second.text = Strip(Suffix(SplitText(pair), Len(SplitText(pair)) \div 2))

ForcedOnlyAsLastResort ==
    \A i \in 1..Len(split_log) :
        /\ (~PunctuationSplits(SplitText(split_log[i]))
              /\ ~WordBoundarySplits(SplitText(split_log[i])))
              => CutAtMidpoint(split_log[i])
        /\ PunctuationSplits(SplitText(split_log[i])) =>
              \E p \in punct_positions(SplitText(split_log[i])) :
                  split_log[i].first.text = Strip(Prefix(SplitText(split_log[i]), p + 1))
        /\ (~PunctuationSplits(SplitText(split_log[i]))
              /\ WordBoundarySplits(SplitText(split_log[i]))) =>
              split_log[i].first.text =
                  Strip(Prefix(SplitText(split_log[i]), best_space_pos(SplitText(split_log[i]))))

UnsplitWhenNoStrategy ==
    \A j \in 1..Len(srt_input) :
        (IsEligible(srt_input[j]) /\ ~IsOverlong(srt_input[j])
            /\ ~PunctuationSplits(Strip(JoinedText(srt_input[j])))
            /\ ~WordBoundarySplits(Strip(JoinedText(srt_input[j])))) =>
            /\ ~WasSplit(srt_input[j])
            /\ PassesFilter(srt_input[j]) => KeptAs(srt_input[j]) # {}

CommaBetweenDigits(text, i) ==
    /\ At(text, i) = ","
    /\ \E j \in Max(0, i - 5)..(i - 1) : IsDigit(At(text, j))
    /\ \E k \in (i + 1)..Min(Len(text) - 1, i + 5) : IsDigit(At(text, k))

\* C26: find_punctuation_split_point never returns the position of a comma
\* that has a digit within 5 characters before it and a digit within 5
\* characters after it.
C26_NumberCommaNeverReturned ==
    pc = "searched" =>
        (split_log[1].pos >= 0 => ~CommaBetweenDigits(srt_input, split_log[1].pos))

(***************************************************************************)
(* The order of the passes in transcribe_audio.                            *)
(***************************************************************************)
\* redistribute_srt_timing of the transcript, had it run before srt_to_json.
Regrouped(lossy) ==
    redistribute_srt_timing(indexed_blocks(Transcribed), pipeline_max_gap_ms,
                            pipeline_min_duration_ms, lossy)

\* The mapping handed to the translation carries regrouped time ranges.
TranslatesRegrouped ==
    pc # "submit" =>
        \E lossy \in BOOLEAN :
            \A i \in 1..Len(subtitle_json) : subtitle_json[i].t = Regrouped(lossy)[i].ts

\* The mapping handed to the translation carries the time ranges and texts
\* of the transcript as transcribed.
TranslatesTranscribed ==
    pc # "submit" =>
        /\ Len(subtitle_json) = Len(Transcribed)
        /\ \A i \in 1..Len(subtitle_json) :
              /\ subtitle_json[i].t = Transcribed[i].ts
              /\ subtitle_json[i].s = Strip(NewlinesToSpaces(Transcribed[i].text))

\* The step that leaves a splitter pass is redistribute_srt_timing of what
\* the splitter wrote.
SplitterThenRedistributor ==
    pc \in {"pass1", "pass2"} =>
        /\ pc' = IF pc = "pass1" THEN "redistributed1" ELSE "done"
        /\ \E lossy \in BOOLEAN :
              srt_content' = redistribute_srt_timing(srt_content, pipeline_max_gap_ms,
                                                     pipeline_min_duration_ms, lossy)

\* Translation, serialization, pass 1 at 60, pass 2 at 40, in this order.
StepsInOrder ==
    /\ pc' = "translated" => pc = "request"
    /\ pc' = "serialized" => pc = "translated"
    /\ pc' = "pass1" => pc = "serialized" /\ pass_char_limit' = pass1_char_limit
    /\ pc' = "redistributed1" => pc = "pass1"
    /\ pc' = "pass2" => pc = "redistributed1" /\ pass_char_limit' = pass2_char_limit
    /\ pc' = "done" => pc = "pass2"
    /\ pc' = "post_processed" => pc = "done"

\* C27 as stated: a grouping and redistribution pass runs before the
\* translation step, the translation is followed by splitter pass 1 (60),
\* a redistribution, splitter pass 2 (40) and a redistribution, and each
\* splitter pass is immediately followed by a redistribution pass.
C27_PassOrder ==
    /\ []TranslatesRegrouped
    /\ [][StepsInOrder /\ SplitterThenRedistributor]_vars

\* C27, amended: the transcript goes to the translation step as it was
\* transcribed, no grouping or redistribution pass before it; after the
\* translation come splitter pass 1 (60), a redistribution, splitter pass 2
\* (40) and a redistribution, each splitter pass immediately followed by a
\* redistribution pass.
C27_PassOrderAfterTranslation ==
    /\ []TranslatesTranscribed
    /\ [][StepsInOrder /\ SplitterThenRedistributor]_vars

\* Both passes and both redistributions ran on a translated transcript of
\* two segments, whose time ranges the redistribution changes.
C27_Witness ==
    /\ pc = "post_processed"
    /\ Len(subtitle_json) = 2
    /\ Len(translated_srt) = 2
    /\ translated_srt # srt_input

(***************************************************************************)
(* The text carried through the two passes.                                *)
(***************************************************************************)
\* The characters of the texts that are no whitespace, in block order.
Visible(text) == SelectSeq(text, LAMBDA c : ~IsSpace(c))

RECURSIVE AllVisible(_)
AllVisible(content) ==
    IF content = <<>> THEN <<>>
    ELSE Visible(Head(content).text) \o AllVisible(Tail(content))

\* A well-formed, time-ordered input whose blocks pass the validation
\* filter: 50 ms or more, two characters or more.
InputWellFormed ==
    /\ InputTimeOrdered
    /\ \A i \in 1..Len(srt_input) :
          /\ Duration(srt_input[i].ts) >= noise_floor_ms
          /\ Len(Strip(srt_input[i].text)) >= 2

\* C28: for such an input the two-pass pipeline loses no text: the
\* non-whitespace characters of the output texts, in order, are those of
\* the input; the redistribution after pass 1 leaves no segment with a
\* non-positive duration for the filter of pass 2 to discard.
C28_NoTextLost ==
    InputWellFormed =>
        /\ pc = "redistributed1" =>
              \A k \in 1..Len(srt_content) : Duration(srt_content[k].ts) > 0
        /\ pc = "done" => AllVisible(srt_content) = AllVisible(srt_input)

(***************************************************************************)
(* The span of a redistributed group.                                      *)
(***************************************************************************)
\* C29: every segment returned by redistribute_timing_in_group for a
\* time-ordered group lies inside the span of the group it was given: it
\* starts no earlier than the group's first start and ends no later than
\* the group's last end.
C29_InsideGroupSpan ==
    (Redone /\ Len(group) >= 1 /\ TimeOrdered(group)) =>
        \A i \in 1..Len(redistributed) :
            /\ redistributed[i].start_ms >= group[1].start_ms
            /\ redistributed[i].end_ms <= group[Len(group)].end_ms

(***************************************************************************)
(* The order of the segments a pass writes.                                *)
(***************************************************************************)
\* The index lines are integers and strictly increasing.
IndicesIncreasing(content) ==
    /\ \A i \in 1..Len(content) : content[i].numeric
    /\ \A i \in 1..(Len(content) - 1) : content[i].num < content[i + 1].num

Piece(ts, text) == [timestamp |-> ts, text |-> text]

\* What an input block stands for in the output: its two children, first
\* then second, when the pass split it, else itself; nothing for a block of
\* fewer than three lines.
PiecesOf(b, log) ==
    IF ~HasThreeLines(b) THEN <<>>
    ELSE IF \E i \in 1..Len(log) : log[i].original.num = b.num
    THEN LET pair == log[CHOOSE i \in 1..Len(log) : log[i].original.num = b.num]
         IN  << Piece(pair.first.timestamp, pair.first.text),
                Piece(pair.second.timestamp, pair.second.text) >>
    ELSE << Piece(b.ts, JoinedText(b)) >>

\* The pieces of the input blocks in input order, without those the
\* validation filter drops.
PiecesInOrder(content, log) ==
    SelectSeq(Concat([j \in 1..Len(content) |-> PiecesOf(content[j], log)]),
              is_valid_segment)

\* The pass read `before` and wrote `after`, having made the splits of log.
WritesInInputOrder(before, after, log) ==
    /\ Len(after) = Len(PiecesInOrder(before, log))
    /\ \A k \in 1..Len(after) :
          /\ after[k].num = k
          /\ Piece(after[k].ts, after[k].text) = PiecesInOrder(before, log)[k]

\* C30: for an input with strictly increasing integer indices a pass of
\* split_advanced_segments, pass 1 on the input or pass 2 on the renumbered
\* output of pass 1 and the redistribution, writes the segments in input
\* order, each split segment replaced by its first child immediately
\* followed by its second; an input segment gives at most two output
\* segments and the sort key of a second child never reorders it against
\* another segment.
C30_ChildrenInPlace ==
    [][(pc' \in {"pass1", "pass2", "split"} /\ IndicesIncreasing(srt_content)) =>
          WritesInInputOrder(srt_content, srt_content', split_log')]_vars

\* Pass 2 split a segment that another segment follows, and wrote the two
\* children next to each other before that segment.
C30_Witness ==
    /\ pc = "pass2"
    /\ \E i \in 1..Len(split_log) :
       \E k \in 1..(Len(srt_content) - 2) :
          /\ srt_content[k].ts = split_log[i].first.timestamp
          /\ srt_content[k].text = split_log[i].first.text
          /\ srt_content[k + 1].ts = split_log[i].second.timestamp
          /\ srt_content[k + 1].text = split_log[i].second.text

====
